---- MODULE Spec2Model ----
(***************************************************************************)
(* Grocery management pipeline: the orchestrator Lambda, the receipt       *)
(* interpreter, the expiration date estimator and the grocery tracker,     *)
(* running as concurrent invocations over one DynamoDB table, one S3       *)
(* bucket and one generation endpoint.                                     *)
(*                                                                         *)
(* Strings are sequences of one-character strings, calendar dates in the   *)
(* "%Y-%m-%d" format are triples <<year, month, day>>, and a datetime is   *)
(* a day number (days since 2023-01-01).                                   *)
(***************************************************************************)
EXTENDS Integers, Sequences, FiniteSets, TLC

\* ---------------------------------------------------------------- bounds
\* number of invocations that are ever started
MaxRequests == 2
\* number of invocations that may be in flight at the same time
MaxInFlight == 2
\* number of receipt uploads that reach the blob store
MaxReceipts == 2
\* number of collaborator calls (S3, DynamoDB, Lambda, SageMaker) that fail
MaxFaults == 1
\* number of midnights that pass
MaxTicks == 1
\* number of records a single DynamoDB scan page holds
PageSize == 2

\* ------------------------------------------------------- python strings
Digits == {"0", "1", "2", "3", "4", "5", "6", "7", "8", "9"}

DigitVal(c) ==
    CASE c = "0" -> 0 [] c = "1" -> 1 [] c = "2" -> 2 [] c = "3" -> 3
      [] c = "4" -> 4 [] c = "5" -> 5 [] c = "6" -> 6 [] c = "7" -> 7
      [] c = "8" -> 8 [] c = "9" -> 9

Whitespace == {" ", "\n", "\t"}

\* str.strip()
RECURSIVE LStrip(_)
LStrip(s) ==
    IF s # <<>> /\ Head(s) \in Whitespace THEN LStrip(Tail(s)) ELSE s

RECURSIVE RStrip(_)
RStrip(s) ==
    IF s # <<>> /\ s[Len(s)] \in Whitespace
    THEN RStrip(SubSeq(s, 1, Len(s) - 1))
    ELSE s

Strip(s) == RStrip(LStrip(s))

\* index of the first / last occurrence of character c in s, 0 when absent
FirstIndex(s, c) ==
    IF \E i \in 1..Len(s) : s[i] = c
    THEN CHOOSE i \in 1..Len(s) : s[i] = c /\ \A j \in 1..(i - 1) : s[j] # c
    ELSE 0

LastIndex(s, c) ==
    IF \E i \in 1..Len(s) : s[i] = c
    THEN CHOOSE i \in 1..Len(s) : s[i] = c /\ \A j \in (i + 1)..Len(s) : s[j] # c
    ELSE 0

\* str.split(c): every piece between occurrences of c
RECURSIVE Split(_, _)
Split(s, c) ==
    LET i == FirstIndex(s, c)
    IN  IF i = 0 THEN <<s>>
        ELSE <<SubSeq(s, 1, i - 1)>> \o Split(SubSeq(s, i + 1, Len(s)), c)

\* str.split(c, 1)
Split1(s, c) ==
    LET i == FirstIndex(s, c)
    IN  IF i = 0 THEN <<s>>
        ELSE <<SubSeq(s, 1, i - 1), SubSeq(s, i + 1, Len(s))>>

\* str.rsplit(c, 1)
RSplit1(s, c) ==
    LET i == LastIndex(s, c)
    IN  IF i = 0 THEN <<s>>
        ELSE <<SubSeq(s, 1, i - 1), SubSeq(s, i + 1, Len(s))>>

\* str.replace(c, '')
RECURSIVE Remove(_, _)
Remove(s, c) ==
    IF s = <<>> THEN <<>>
    ELSE IF Head(s) = c THEN Remove(Tail(s), c)
    ELSE <<Head(s)>> \o Remove(Tail(s), c)

\* value of a non-empty sequence of decimal digits
RECURSIVE DigitsValue(_)
DigitsValue(s) ==
    IF s = <<>> THEN 0
    ELSE 10 * DigitsValue(SubSeq(s, 1, Len(s) - 1)) + DigitVal(s[Len(s)])

AllDigits(s) == s # <<>> /\ \A i \in 1..Len(s) : s[i] \in Digits

RECURSIVE Pow10(_)
Pow10(n) == IF n = 0 THEN 1 ELSE 10 * Pow10(n - 1)

\* re.search(r'(\d+)', s): the first maximal run of digits, <<>> when none
DigitRun(s) ==
    IF \E i \in 1..Len(s) : s[i] \in Digits
    THEN LET a == CHOOSE i \in 1..Len(s) :
                    s[i] \in Digits /\ \A j \in 1..(i - 1) : s[j] \notin Digits
             b == CHOOSE i \in a..Len(s) :
                    /\ \A j \in a..i : s[j] \in Digits
                    /\ (i = Len(s) \/ s[i + 1] \notin Digits)
         IN  SubSeq(s, a, b)
    ELSE <<>>

\* int(s) for the forms "123", "-123", "+123" with surrounding whitespace;
\* ok = FALSE stands for ValueError
ParseInt(s) ==
    LET t    == Strip(s)
        neg  == t # <<>> /\ Head(t) = "-"
        body == IF t # <<>> /\ Head(t) \in {"-", "+"} THEN Tail(t) ELSE t
    IN  IF AllDigits(body)
        THEN [ok |-> TRUE,
              val |-> IF neg THEN 0 - DigitsValue(body) ELSE DigitsValue(body)]
        ELSE [ok |-> FALSE, val |-> 0]

\* float(s) for the forms "12", "12.5", ".5", "12." with an optional sign;
\* the value is num / den.  ok = FALSE stands for ValueError
ParseFloat(s) ==
    LET t     == Strip(s)
        neg   == t # <<>> /\ Head(t) = "-"
        body  == IF t # <<>> /\ Head(t) \in {"-", "+"} THEN Tail(t) ELSE t
        parts == Split1(body, ".")
        ip    == parts[1]
        fp    == IF Len(parts) = 2 THEN parts[2] ELSE <<>>
        wellFormed ==
            /\ \A i \in 1..Len(ip) : ip[i] \in Digits
            /\ \A i \in 1..Len(fp) : fp[i] \in Digits
            /\ ip \o fp # <<>>
        mag   == DigitsValue(ip \o fp)
    IN  IF wellFormed
        THEN [ok |-> TRUE,
              num |-> IF neg THEN 0 - mag ELSE mag,
              den |-> Pow10(Len(fp))]
        ELSE [ok |-> FALSE, num |-> 0, den |-> 1]

\* ------------------------------------------------------- datetime, dates
FirstYear == 2023
LastYear == 2025

IsLeap(y) == (y % 4 = 0 /\ y % 100 # 0) \/ y % 400 = 0

DaysInMonth(y, m) ==
    IF m = 2 THEN (IF IsLeap(y) THEN 29 ELSE 28)
    ELSE IF m \in {4, 6, 9, 11} THEN 30 ELSE 31

DaysInYear(y) == IF IsLeap(y) THEN 366 ELSE 365

RECURSIVE DaysBeforeYear(_)
DaysBeforeYear(y) ==
    IF y <= FirstYear THEN 0 ELSE DaysBeforeYear(y - 1) + DaysInYear(y - 1)

RECURSIVE DaysBeforeMonth(_, _)
DaysBeforeMonth(y, m) ==
    IF m <= 1 THEN 0 ELSE DaysBeforeMonth(y, m - 1) + DaysInMonth(y, m - 1)

\* datetime.strptime(s, "%Y-%m-%d"): ok = FALSE stands for ValueError
ValidDate(d) ==
    /\ Len(d) = 3
    /\ d[1] \in FirstYear..LastYear
    /\ d[2] \in 1..12
    /\ d[3] \in 1..DaysInMonth(d[1], d[2])

Strptime(d) ==
    IF ValidDate(d)
    THEN [ok |-> TRUE,
          val |-> DaysBeforeYear(d[1]) + DaysBeforeMonth(d[1], d[2]) + d[3] - 1]
    ELSE [ok |-> FALSE, val |-> 0]

\* datetime.strftime("%Y-%m-%d")
RECURSIVE YearOf(_, _)
YearOf(n, y) ==
    IF n < DaysBeforeYear(y + 1) \/ y = LastYear THEN y ELSE YearOf(n, y + 1)

RECURSIVE MonthOf(_, _, _)
MonthOf(n, y, m) ==
    IF n < DaysBeforeYear(y) + DaysBeforeMonth(y, m + 1) \/ m = 12 THEN m
    ELSE MonthOf(n, y, m + 1)

Strftime(n) ==
    LET y == YearOf(n, FirstYear)
        m == MonthOf(n, y, 1)
    IN  <<y, m, n - DaysBeforeYear(y) - DaysBeforeMonth(y, m) + 1>>

\* ------------------------------------------------- generated text samples
\* the strings the generation endpoint may answer with
cMilk == <<"M", "i", "l", "k">>
cBread == <<"B", "r", "e", "a", "d">>
cEggs == <<"E", "g", "g", "s">>

\* "Milk 3.50\nBread $2"
ReceiptTextTwo ==
    cMilk \o <<" ", "3", ".", "5", "0", "\n">> \o cBread \o <<" ", "$", "2">>
\* "Eggs 4\n"
ReceiptTextOne == cEggs \o <<" ", "4", "\n">>
\* "TOTAL\n\nn/a x"
ReceiptTextNone ==
    <<"T", "O", "T", "A", "L", "\n", "\n", "n", "/", "a", " ", "x">>

\* "Refund -1.50"
ReceiptTextRefund ==
    <<"R", "e", "f", "u", "n", "d", " ", "-", "1", ".", "5", "0">>

ReceiptTexts ==
    {ReceiptTextTwo, ReceiptTextOne, ReceiptTextNone, ReceiptTextRefund}

\* "Milk: 0 days\nBread: 3 days"
EstimateTextBoth ==
    cMilk \o <<":", " ", "0", " ", "d", "a", "y", "s", "\n">>
          \o cBread \o <<":", " ", "3", " ", "d", "a", "y", "s">>
\* "Milk: 10 days\nEggs: about 2"
EstimateTextShort ==
    cMilk \o <<":", " ", "1", "0", " ", "d", "a", "y", "s", "\n">>
          \o cEggs \o <<":", " ", "a", "b", "o", "u", "t", " ", "2">>
\* "unknown"
EstimateTextNone == <<"u", "n", "k", "n", "o", "w", "n">>

\* "milk: 10 days"
EstimateTextLower ==
    <<"m", "i", "l", "k", ":", " ", "1", "0", " ", "d", "a", "y", "s">>

EstimateTexts ==
    {EstimateTextBoth, EstimateTextShort, EstimateTextNone, EstimateTextLower}

\* the answers of the generation endpoint, as parsed by json.loads: a dict
\* with generated_text, or a dict without it
GenerationResults(texts) ==
    {[generated_text |-> t] : t \in texts} \cup {[error |-> "ModelError"]}

\* the longest item list one receipt text yields
MaxItems == 2

\* ----------------------------------------------------------- dictionaries
\* a python dict is a function; d[k] = v overwrites or adds
Put(d, k, v) == [x \in DOMAIN d \cup {k} |-> IF x = k THEN v ELSE d[x]]

Del(d, k) == [x \in DOMAIN d \ {k} |-> d[x]]

EmptyDict == <<>>

\* ------------------------------------------------------- DynamoDB table
\* ItemId "{receipt_id}-{i+1}" is the pair <<receipt_id, i+1>>
\* the uuid of an upload made before the observed invocations
SeedReceipt == MaxReceipts + 1

ItemIds == (1..SeedReceipt) \X (1..MaxItems)

KeyLess(a, b) == a[1] < b[1] \/ (a[1] = b[1] /\ a[2] < b[2])

\* one page of table.scan(): the PageSize records after startKey in key
\* order, and LastEvaluatedKey when the page stopped before the table's end.
\* startKey = <<>> starts the scan.
ScanPage(tbl, startKey) ==
    LET rest == {k \in DOMAIN tbl : startKey = <<>> \/ KeyLess(startKey, k)}
        page == {k \in rest : Cardinality({j \in rest : KeyLess(j, k)}) < PageSize}
        last == IF page = {} THEN <<>>
                ELSE CHOOSE k \in page : \A j \in page : j = k \/ KeyLess(j, k)
    IN  [Items |-> page,
         LastEvaluatedKey |-> IF rest \ page = {} THEN <<>> ELSE last]

\* table.update_item(Key, "set ExpirationDate = :ed, ShelfLifeDays = :sld,
\* UpdatedAt = :ua"): sets the three attributes; with no ConditionExpression
\* an absent key gets a new record holding the key and the three attributes
UpdateItem(tbl, key, ed, sld, ua) ==
    LET old == IF key \in DOMAIN tbl THEN tbl[key] ELSE [ItemId |-> key]
    IN  Put(tbl, key,
            Put(Put(Put(old, "ExpirationDate", ed), "ShelfLifeDays", sld),
                "UpdatedAt", ua))

\* table.delete_item(Key): removes the record, no error when it is absent
DeleteItem(tbl, key) == Del(tbl, key)

\* table.put_item(Item): replaces the whole record
PutItem(tbl, item) == Put(tbl, item.ItemId, item)

\* --------------------------------------------- receipt_interpreter/app.py
\* the loop body of parse_receipt_text: the items one line contributes
ParseReceiptLine(line, today) ==
    IF Strip(line) = <<>> THEN <<>>
    ELSE LET parts == RSplit1(Strip(line), " ")
         IN  IF Len(parts) = 2
             THEN LET item_name == Strip(parts[1])
                      price_str == Remove(Strip(parts[2]), "$")
                      price     == ParseFloat(price_str)
                  IN  IF price.ok
                      THEN <<[name |-> item_name,
                              price |-> [num |-> price.num, den |-> price.den],
                              purchase_date |-> Strftime(today)]>>
                      ELSE <<>>
             ELSE <<>>

RECURSIVE ParseReceiptLines(_, _)
ParseReceiptLines(lines, today) ==
    IF lines = <<>> THEN <<>>
    ELSE ParseReceiptLine(Head(lines), today)
            \o ParseReceiptLines(Tail(lines), today)

parse_receipt_text(receipt_text, today) ==
    ParseReceiptLines(Split(Strip(receipt_text), "\n"), today)

\* the record store_grocery_items puts for the i-th item (i counts from 1)
DbItem(receipt_id, i, item, today) ==
    [ItemId |-> <<receipt_id, i>>,
     ReceiptId |-> receipt_id,
     Name |-> item.name,
     Price |-> item.price,
     PurchaseDate |-> item.purchase_date,
     CreatedAt |-> today]

\* --------------------------------------- expiration_date_estimator/app.py
\* get_grocery_items: one table.scan() call with the ReceiptId filter; the
\* filter is applied to the records of the first page, no further page is read
get_grocery_items(tbl, receipt_id) ==
    LET page == ScanPage(tbl, <<>>).Items
    IN  {k \in page : "ReceiptId" \in DOMAIN tbl[k] /\ tbl[k].ReceiptId = receipt_id}

\* the scan result as a list, in key order
RECURSIVE KeyList(_)
KeyList(keys) ==
    IF keys = {} THEN <<>>
    ELSE LET k == CHOOSE x \in keys : \A y \in keys : x = y \/ KeyLess(x, y)
         IN  <<k>> \o KeyList(keys \ {k})

ItemList(tbl, keys) ==
    LET ks == KeyList(keys) IN [i \in 1..Len(ks) |-> tbl[ks[i]]]

\* the loop of parse_expiration_estimates over the lines, into the dict
RECURSIVE ParseEstimateLines(_, _)
ParseEstimateLines(lines, estimates) ==
    IF lines = <<>> THEN estimates
    ELSE LET line  == Head(lines)
             parts == Split1(line, ":")
             days  == IF Len(parts) = 2 THEN DigitRun(Strip(parts[2])) ELSE <<>>
         IN  IF Strip(line) # <<>> /\ Len(parts) = 2 /\ days # <<>>
             THEN ParseEstimateLines(Tail(lines),
                      Put(estimates, Strip(parts[1]), DigitsValue(days)))
             ELSE ParseEstimateLines(Tail(lines), estimates)

parse_expiration_estimates(expiration_text) ==
    ParseEstimateLines(Split(Strip(expiration_text), "\n"), EmptyDict)

\* the default shelf life of an item without an estimate
DefaultShelfLifeDays == 7

\* the shelf life estimate_expiration_dates picks for an item name
ShelfLifeFor(item_name, expiration_estimates) ==
    IF item_name \in DOMAIN expiration_estimates
    THEN expiration_estimates[item_name]
    ELSE DefaultShelfLifeDays

\* the loop body of estimate_expiration_dates: the item with its dates
WithExpiration(item, expiration_estimates) ==
    LET days            == ShelfLifeFor(item.Name, expiration_estimates)
        purchase_date   == Strptime(item.PurchaseDate).val
        expiration_date == purchase_date + days
    IN  Put(Put(item, "ExpirationDate", Strftime(expiration_date)),
            "ShelfLifeDays", days)

estimate_expiration_dates(grocery_items, expiration_text) ==
    LET expiration_estimates == parse_expiration_estimates(expiration_text)
    IN  [i \in 1..Len(grocery_items) |->
            WithExpiration(grocery_items[i], expiration_estimates)]

\* ------------------------------------------------- grocery_tracker/app.py
\* the scan loop of get_grocery_inventory: pages are read until a page
\* carries no LastEvaluatedKey
RECURSIVE ScanAll(_, _)
ScanAll(tbl, startKey) ==
    LET response == ScanPage(tbl, startKey)
    IN  IF response.LastEvaluatedKey = <<>> THEN response.Items
        ELSE response.Items \cup ScanAll(tbl, response.LastEvaluatedKey)

\* a filter without the lower bound: expired records pass
InWindowNoLowerBound(item, today, days_to_expiration) ==
    /\ "ExpirationDate" \in DOMAIN item
    /\ Strptime(item.ExpirationDate).ok
    /\ Strptime(item.ExpirationDate).val - today <= days_to_expiration

\* (expiration_date - today).days for a stored record
DaysUntilExpiration(item, today) == Strptime(item.ExpirationDate).val - today

\* the filter of get_grocery_inventory on one record
InWindow(item, today, days_to_expiration) ==
    /\ "ExpirationDate" \in DOMAIN item
    /\ Strptime(item.ExpirationDate).ok
    /\ 0 <= DaysUntilExpiration(item, today)
    /\ DaysUntilExpiration(item, today) <= days_to_expiration

\* get_grocery_inventory(days_to_expiration); filter = FALSE is None.
\* The result is the set of returned records.
get_grocery_inventory(tbl, filter, days_to_expiration, today) ==
    LET items == {tbl[k] : k \in ScanAll(tbl, <<>>)}
    IN  IF filter
        THEN {Put(item, "DaysUntilExpiration", DaysUntilExpiration(item, today)) :
                item \in {it \in items : InWindow(it, today, days_to_expiration)}}
        ELSE items

\* ------------------------------------------------- events and responses
Response(status, body) == [statusCode |-> status, body |-> body]

\* response.get('statusCode'): 0 stands for None
StatusOf(response) ==
    IF "statusCode" \in DOMAIN response THEN response.statusCode ELSE 0

\* what the Lambda service hands the invoker when a handler lets an
\* exception escape: a payload without statusCode
Unhandled(msg) == [errorMessage |-> msg, errorType |-> "Exception"]

\* a body read with event.get('body'), without the {} default
BodyOfNoDefault(event) ==
    CASE event.body.shape = "nokey"     -> [kind |-> "none", val |-> EmptyDict]
      [] event.body.shape = "null"      -> [kind |-> "none", val |-> EmptyDict]
      [] event.body.shape = "malformed" -> [kind |-> "raise", val |-> EmptyDict]
      [] event.body.shape = "object"    -> [kind |-> "dict", val |-> event.body.obj]

\* body = json.loads(event['body']) if isinstance(event.get('body'), str)
\*        else event.get('body', {})
\* kind "dict": a JSON object; "none": the body key holds None;
\* "raise": json.loads raised
BodyOf(event) ==
    CASE event.body.shape = "nokey"     -> [kind |-> "dict", val |-> EmptyDict]
      [] event.body.shape = "null"      -> [kind |-> "none", val |-> EmptyDict]
      [] event.body.shape = "malformed" -> [kind |-> "raise", val |-> EmptyDict]
      [] event.body.shape = "object"    -> [kind |-> "dict", val |-> event.body.obj]

\* path.endswith('/' + segment); a path is the sequence of its segments
EndsWith(path, segment) == path # <<>> /\ path[Len(path)] = segment

\* base64.b64decode(image_data): ok = FALSE stands for binascii.Error
B64Decode(image_data) ==
    IF image_data = "aGk=" THEN [ok |-> TRUE, val |-> "hi"]
    ELSE [ok |-> FALSE, val |-> ""]

NoBody == [shape |-> "nokey"]
NullBody == [shape |-> "null"]
MalformedBody == [shape |-> "malformed"]
ObjectBody(obj) == [shape |-> "object", obj |-> obj]

NoQuery == EmptyDict
ExpiringQuery(text) == [expiring_within_days |-> text]

Event(path, method, body, query) ==
    [path |-> path, httpMethod |-> method, body |-> body,
     queryStringParameters |-> query]

ReceiptBodies ==
    {ObjectBody([image |-> "aGk="]), ObjectBody([image |-> "a"]),
     ObjectBody(EmptyDict), NoBody, NullBody, MalformedBody}

Queries == {NoQuery, ExpiringQuery(<<"3">>), ExpiringQuery(<<"x">>)}

DeleteBodies ==
    {ObjectBody([item_id |-> k]) : k \in ItemIds}
        \cup {ObjectBody(EmptyDict), NullBody}

EstimateBodies ==
    {ObjectBody([receipt_id |-> r]) : r \in 1..MaxReceipts}
        \cup {ObjectBody(EmptyDict), MalformedBody}

\* the invocations the environment may start: <<function, event>>
Requests ==
    {<<"orchestrator", Event(<<"receipts">>, "POST", b, NoQuery)>> :
        b \in ReceiptBodies}
    \cup {<<"orchestrator", Event(<<"grocery">>, "GET", NoBody, q)>> :
        q \in Queries}
    \cup {<<"orchestrator", Event(<<"grocery">>, "DELETE", b, NoQuery)>> :
        b \in {ObjectBody([item_id |-> <<1, 1>>])}}
    \cup {<<"orchestrator", Event(<<"health">>, "GET", NoBody, NoQuery)>>}
    \cup {<<"tracker", Event(<<"grocery">>, "GET", NoBody, q)>> : q \in Queries}
    \cup {<<"tracker", Event(<<"grocery">>, "DELETE", b, NoQuery)>> :
        b \in DeleteBodies}
    \cup {<<"tracker", Event(<<"grocery">>, "PUT", NoBody, NoQuery)>>}
    \cup {<<"estimator", Event(<<>>, "POST", b, NoQuery)>> : b \in EstimateBodies}
    \cup {<<"crew", Event(<<"receipts">>, "POST", b, NoQuery)>> :
        b \in {ObjectBody([image |-> "aGk="]), ObjectBody(EmptyDict)}}
    \cup {<<"crew", Event(<<"receipts">>, "GET", NoBody, NoQuery)>>}

\* ------------------------------------------------------------------ state
VARIABLES
    table,        \* the grocery table: ItemId -> record
    bucket,       \* the receipt bucket: the keys put so far
    inv,          \* the invocations in flight, by slot
    issued,       \* number of invocations started so far
    nextReceipt,  \* the next value uuid4() gives
    faults,       \* number of collaborator calls that failed so far
    now,          \* datetime.now(), as a day number
    removed,      \* history: the ItemIds whose delete_item was acknowledged
    crew,         \* a tool call of GroceryManagementCrew: input and output
    recommender   \* an invocation of the recipe recommender, and the recipe table

vars == <<table, bucket, inv, issued, nextReceipt, faults, now, removed, crew,
          recommender>>

\* no tool call of the crew is under way
NoCrew == [pc |-> "none"]

NoRecommender == [pc |-> "none"]

Slots == 1..MaxInFlight

NoResponse == EmptyDict
NoException == EmptyDict

\* the local state of one invocation
\*   function      the Lambda function the environment invoked
\*   event         its event
\*   payload       the event of the stage that is running
\*   pc            the next step
\*   uuid          the value uuid.uuid4() returns in this invocation
\*   receipt_id    receipt_id of the stage that is running, 0 when unset
\*   items         grocery_items / updated_items of the running stage
\*   i             loop index into items
\*   receipt_response, expiration_response   the orchestrator's locals
\*   estimateInvoked   the orchestrator has invoked the estimator
\*   stored        the records store_grocery_items has put
\*   generations   number of calls to the generation endpoint
\*   result        the last answer of the generation endpoint
\*   exception     the exception raised in a handler: [handler, msg]
\*   response      the response handed to the environment
IdleSlot ==
    [function |-> "", event |-> EmptyDict, payload |-> EmptyDict,
     pc |-> "idle", uuid |-> 0,
     receipt_id |-> 0, items |-> <<>>, i |-> 0,
     receipt_response |-> NoResponse, expiration_response |-> NoResponse,
     estimateInvoked |-> FALSE, stored |-> {}, generations |-> 0,
     result |-> EmptyDict,
     exception |-> NoException, response |-> NoResponse]

StartDay == Strptime(<<2024, 2, 27>>).val

\* the tables the observed invocations may find: an empty one, and one with
\* the record of an earlier upload, bought 2024-02-20 and estimated to keep
\* 7 days
SeedItem ==
    [ItemId |-> <<SeedReceipt, 1>>, ReceiptId |-> SeedReceipt, Name |-> cEggs,
     Price |-> [num |-> 4, den |-> 1], PurchaseDate |-> <<2024, 2, 20>>,
     CreatedAt |-> StartDay - 7, ExpirationDate |-> <<2024, 2, 27>>,
     ShelfLifeDays |-> 7, UpdatedAt |-> StartDay - 7]

StartTables == {EmptyDict, PutItem(EmptyDict, SeedItem)}

Init ==
    /\ table \in StartTables
    /\ bucket = {}
    /\ inv = [s \in Slots |-> IdleSlot]
    /\ issued = 0
    /\ nextReceipt = 1
    /\ faults = 0
    /\ now = StartDay
    /\ removed = {}
    /\ crew = NoCrew
    /\ recommender = NoRecommender

Raise(handler, msg) == [handler |-> handler, msg |-> msg]

\* the first step of each Lambda function
EntryPoint(function) ==
    CASE function = "orchestrator" -> "orch"
      [] function = "estimator"    -> "est"
      [] function = "tracker"      -> "trk"
      [] function = "crew"         -> "crew"

\* whether the invocation will draw a uuid for a receipt
DrawsUuid(function, event) ==
    /\ function = "orchestrator"
    /\ EndsWith(event.path, "receipts") /\ event.httpMethod = "POST"
    /\ event.body.shape = "object"
    /\ "image" \in DOMAIN event.body.obj
    /\ B64Decode(event.body.obj.image).ok

\* the environment starts an invocation
Issue(s) ==
    /\ inv[s].pc = "idle"
    /\ \A t \in Slots : t < s => inv[t].pc # "idle"
    /\ issued < MaxRequests
    /\ \E req \in Requests :
        LET draws == DrawsUuid(req[1], req[2])
        IN  /\ draws => nextReceipt <= MaxReceipts
            /\ inv' = [inv EXCEPT ![s] =
                    [IdleSlot EXCEPT !.function = req[1], !.event = req[2],
                                     !.payload = req[2],
                                     !.pc = EntryPoint(req[1]),
                                     !.uuid = IF draws THEN nextReceipt ELSE 0]]
            /\ nextReceipt' = IF draws THEN nextReceipt + 1 ELSE nextReceipt
    /\ issued' = issued + 1
    /\ UNCHANGED <<table, bucket, faults, now, removed, crew, recommender>>

\* the environment takes the response; the slot is free again
Return(s) ==
    /\ inv[s].pc = "done"
    /\ inv' = [inv EXCEPT ![s] = IdleSlot]
    /\ UNCHANGED <<table, bucket, issued, nextReceipt, faults, now, removed, crew, recommender>>

\* midnight passes
Tick ==
    /\ now < StartDay + MaxTicks
    /\ now' = now + 1
    /\ UNCHANGED <<table, bucket, inv, issued, nextReceipt, faults, removed, crew, recommender>>

\* a collaborator call (S3, DynamoDB, Lambda invoke, SageMaker) fails
FaultAllowed == faults < MaxFaults

\* ------------------------------------------------------ orchestrator/app.py
\* the except clause of the orchestrator's lambda_handler
OrchestratorCaught(msg) == Response(500, [error |-> msg])

\* the branch lambda_handler takes for a path and a method
Route(path, http_method) ==
    IF EndsWith(path, "receipts") /\ http_method = "POST" THEN "process_receipt"
    ELSE IF EndsWith(path, "grocery") /\ http_method = "GET"
         THEN "get_grocery_inventory"
    ELSE IF EndsWith(path, "recipes") /\ http_method = "GET"
         THEN "get_recipe_recommendations"
    ELSE "not_found"

\* a short circuit on server errors only: a 400 goes on to the estimator
ShortCircuitsOnServerError(receipt_response) == StatusOf(receipt_response) >= 500

\* whether process_receipt returns receipt_response without a second stage
ShortCircuits(receipt_response) == StatusOf(receipt_response) # 200

\* body.get('receipt_id'): 0 stands for None
ReceiptIdOf(body) ==
    IF "receipt_id" \in DOMAIN body THEN body.receipt_id ELSE 0

\* lambda_handler up to the first invoke_lambda
OrchestratorDispatch(s) ==
    LET me    == inv[s]
        route == Route(me.event.path, me.event.httpMethod)
    IN  /\ me.pc = "orch"
        /\ \/ /\ route = "not_found"
              /\ inv' = [inv EXCEPT ![s].pc = "done",
                            ![s].response = Response(404, [error |-> "Not found"])]
              /\ UNCHANGED faults
           \/ /\ route = "process_receipt"
              /\ inv' = [inv EXCEPT ![s].pc = "interp"]
              /\ UNCHANGED faults
           \/ /\ route = "get_grocery_inventory"
              /\ inv' = [inv EXCEPT ![s].pc = "trk"]
              /\ UNCHANGED faults
           \/ /\ route \in {"process_receipt", "get_grocery_inventory"}
              /\ FaultAllowed
              /\ faults' = faults + 1
              /\ inv' = [inv EXCEPT ![s].pc = "done",
                            ![s].exception = Raise("orchestrator", "InvokeError"),
                            ![s].response = OrchestratorCaught("InvokeError")]
        /\ UNCHANGED <<table, bucket, issued, nextReceipt, now, removed, crew, recommender>>

\* process_receipt after the interpreter has answered: lines 67-81
OrchestratorAfterInterpret(s) ==
    LET me == inv[s]
    IN  /\ me.pc = "orch_interp"
        /\ \/ /\ ShortCircuits(me.receipt_response)
              /\ inv' = [inv EXCEPT ![s].pc = "done",
                            ![s].response = me.receipt_response]
              /\ UNCHANGED faults
           \/ /\ ~ShortCircuits(me.receipt_response)
              /\ "body" \in DOMAIN me.receipt_response
              /\ inv' = [inv EXCEPT ![s].pc = "est",
                            ![s].estimateInvoked = TRUE,
                            ![s].payload = Event(<<>>, "",
                                ObjectBody([receipt_id |->
                                    ReceiptIdOf(me.receipt_response.body)]),
                                NoQuery),
                            ![s].receipt_id = 0, ![s].items = <<>>, ![s].i = 0,
                            ![s].result = EmptyDict]
              /\ UNCHANGED faults
           \/ /\ ~ShortCircuits(me.receipt_response)
              /\ "body" \notin DOMAIN me.receipt_response
              /\ inv' = [inv EXCEPT ![s].pc = "done",
                            ![s].exception = Raise("orchestrator", "KeyError"),
                            ![s].response = OrchestratorCaught("KeyError")]
              /\ UNCHANGED faults
           \/ /\ ~ShortCircuits(me.receipt_response)
              /\ FaultAllowed
              /\ faults' = faults + 1
              /\ inv' = [inv EXCEPT ![s].pc = "done",
                            ![s].exception = Raise("orchestrator", "InvokeError"),
                            ![s].response = OrchestratorCaught("InvokeError")]
        /\ UNCHANGED <<table, bucket, issued, nextReceipt, now, removed, crew, recommender>>

\* a process_receipt that compensates: it deletes the receipt's records when
\* the estimator fails
OrchestratorAfterEstimateCompensating(s) ==
    LET me == inv[s]
    IN  /\ me.pc = "orch_est"
        /\ inv' = [inv EXCEPT ![s].pc = "done",
                      ![s].response = me.expiration_response]
        /\ table' = IF StatusOf(me.expiration_response) # 200
                    THEN [k \in DOMAIN table \ {r.ItemId : r \in me.stored} |->
                            table[k]]
                    ELSE table
        /\ UNCHANGED <<bucket, issued, nextReceipt, faults, now, removed, crew, recommender>>

\* process_receipt after the estimator has answered: lines 83-87
OrchestratorAfterEstimate(s) ==
    LET me == inv[s]
    IN  /\ me.pc = "orch_est"
        /\ inv' = [inv EXCEPT ![s].pc = "done",
                      ![s].response = me.expiration_response]
        /\ UNCHANGED <<table, bucket, issued, nextReceipt, faults, now, removed, crew, recommender>>

\* ----------------------------------------------- receipt_interpreter/app.py
\* the except clause of the interpreter's lambda_handler
InterpreterCaught(msg) == Response(500, [error |-> msg])

\* the interpreter hands its response to the orchestrator
InterpreterReturns(me, response) ==
    [me EXCEPT !.pc = "orch_interp", !.receipt_response = response]

InterpreterRaises(me, msg) ==
    InterpreterReturns([me EXCEPT !.exception = Raise("interpreter", msg)],
                       InterpreterCaught(msg))

\* the 200 response of the interpreter
InterpreterOk(receipt_id, grocery_items) ==
    Response(200, [receipt_id |-> receipt_id,
                   items_count |-> Len(grocery_items),
                   items |-> grocery_items])

\* whether the handler rejects the parsed body with 400
NoImage(body) == "image" \notin DOMAIN body

\* lambda_handler lines 29-58: body, image, uuid, s3.put_object
InterpretStart(s) ==
    LET me   == inv[s]
        body == BodyOf(me.payload)
    IN  /\ me.pc = "interp"
        /\ \/ /\ body.kind = "raise"
              /\ inv' = [inv EXCEPT ![s] = InterpreterRaises(me, "JSONDecodeError")]
              /\ UNCHANGED <<bucket, faults>>
           \/ /\ body.kind = "none"
              /\ inv' = [inv EXCEPT ![s] = InterpreterRaises(me, "TypeError")]
              /\ UNCHANGED <<bucket, faults>>
           \/ /\ body.kind = "dict" /\ NoImage(body.val)
              /\ inv' = [inv EXCEPT ![s] = InterpreterReturns(me,
                            Response(400, [error |-> "No image provided"]))]
              /\ UNCHANGED <<bucket, faults>>
           \/ /\ body.kind = "dict" /\ ~NoImage(body.val)
              /\ ~B64Decode(body.val.image).ok
              /\ inv' = [inv EXCEPT ![s] = InterpreterRaises(me, "binascii.Error")]
              /\ UNCHANGED <<bucket, faults>>
           \/ /\ body.kind = "dict" /\ ~NoImage(body.val)
              /\ B64Decode(body.val.image).ok
              /\ \/ /\ bucket' = bucket \cup {<<me.uuid, now>>}
                    /\ inv' = [inv EXCEPT ![s].pc = "interp_gen",
                                  ![s].receipt_id = me.uuid]
                    /\ UNCHANGED faults
                 \/ /\ FaultAllowed
                    /\ faults' = faults + 1
                    /\ inv' = [inv EXCEPT ![s] = InterpreterRaises(
                                  [me EXCEPT !.receipt_id = me.uuid], "S3Error")]
                    /\ UNCHANGED bucket
        /\ UNCHANGED <<table, issued, nextReceipt, now, removed, crew, recommender>>

\* an extract_text_from_receipt that answers the empty text instead of raising
extract_text_or_empty(result) ==
    IF "generated_text" \in DOMAIN result
    THEN [ok |-> TRUE, text |-> result.generated_text]
    ELSE [ok |-> TRUE, text |-> <<>>]

\* extract_text_from_receipt lines 110-117: the text of the endpoint's
\* answer; ok = FALSE stands for the raised Exception
extract_text_from_receipt(result) ==
    IF "generated_text" \in DOMAIN result
    THEN [ok |-> TRUE, text |-> result.generated_text]
    ELSE [ok |-> FALSE, text |-> <<>>]

\* lambda_handler lines 60-63: extract_text_from_receipt, parse_receipt_text
InterpretGenerate(s) ==
    LET me == inv[s]
    IN  /\ me.pc = "interp_gen"
        /\ \E result \in GenerationResults(ReceiptTexts) :
            LET receipt_text  == extract_text_from_receipt(result)
                grocery_items == parse_receipt_text(receipt_text.text, now)
                called == [me EXCEPT !.generations = me.generations + 1,
                                     !.result = result]
            IN  inv' = [inv EXCEPT ![s] =
                    IF ~receipt_text.ok
                    THEN InterpreterRaises(called,
                            "Failed to extract text from receipt")
                    ELSE IF grocery_items = <<>>
                    THEN InterpreterReturns(called,
                            InterpreterOk(me.receipt_id, grocery_items))
                    ELSE [called EXCEPT !.pc = "interp_store",
                                        !.items = grocery_items, !.i = 1]]
        /\ UNCHANGED <<table, bucket, issued, nextReceipt, faults, now, removed, crew, recommender>>

\* one round of the loop of store_grocery_items, and the handler's return
\* after the last round
InterpretStore(s) ==
    LET me      == inv[s]
        db_item == DbItem(me.receipt_id, me.i, me.items[me.i], now)
    IN  /\ me.pc = "interp_store"
        /\ \/ /\ table' = PutItem(table, db_item)
              /\ LET put == [me EXCEPT !.stored = me.stored \cup {db_item},
                                       !.i = me.i + 1]
                 IN  inv' = [inv EXCEPT ![s] =
                        IF me.i = Len(me.items)
                        THEN InterpreterReturns(put,
                                InterpreterOk(me.receipt_id, me.items))
                        ELSE put]
              /\ UNCHANGED faults
           \/ /\ FaultAllowed
              /\ faults' = faults + 1
              /\ inv' = [inv EXCEPT ![s] = InterpreterRaises(me, "DynamoDBError")]
              /\ UNCHANGED table
        /\ UNCHANGED <<bucket, issued, nextReceipt, now, removed, crew, recommender>>

\* ----------------------------------------- expiration_date_estimator/app.py
\* the except clause of the estimator's lambda_handler
EstimatorCaught(msg) == Response(500, [error |-> msg])

\* the estimator hands its response to its invoker
EstimatorReturns(me, response) ==
    IF me.function = "orchestrator"
    THEN [me EXCEPT !.pc = "orch_est", !.expiration_response = response]
    ELSE [me EXCEPT !.pc = "done", !.expiration_response = response,
                    !.response = response]

EstimatorRaises(me, msg) ==
    EstimatorReturns([me EXCEPT !.exception = Raise("estimator", msg)],
                     EstimatorCaught(msg))

\* the 200 response of the estimator
EstimatorOk(receipt_id, updated_items) ==
    Response(200, [receipt_id |-> receipt_id,
                   items_count |-> Len(updated_items),
                   items |-> updated_items])

\* lambda_handler lines 23-42: body, receipt_id, get_grocery_items
EstimateStart(s) ==
    LET me         == inv[s]
        body       == BodyOf(me.payload)
        receipt_id == ReceiptIdOf(body.val)
        keys       == get_grocery_items(table, receipt_id)
    IN  /\ me.pc = "est"
        /\ \/ /\ body.kind = "raise"
              /\ inv' = [inv EXCEPT ![s] = EstimatorRaises(me, "JSONDecodeError")]
              /\ UNCHANGED faults
           \/ /\ body.kind = "none"
              /\ inv' = [inv EXCEPT ![s] = EstimatorRaises(me, "AttributeError")]
              /\ UNCHANGED faults
           \/ /\ body.kind = "dict" /\ receipt_id = 0
              /\ inv' = [inv EXCEPT ![s] = EstimatorReturns(me,
                            Response(400, [error |-> "No receipt_id provided"]))]
              /\ UNCHANGED faults
           \/ /\ body.kind = "dict" /\ receipt_id # 0 /\ keys = {}
              /\ inv' = [inv EXCEPT ![s] = EstimatorReturns(
                            [me EXCEPT !.receipt_id = receipt_id],
                            Response(404, [error |-> "No items found for receipt_id"]))]
              /\ UNCHANGED faults
           \/ /\ body.kind = "dict" /\ receipt_id # 0 /\ keys # {}
              /\ inv' = [inv EXCEPT ![s].pc = "est_gen",
                            ![s].receipt_id = receipt_id,
                            ![s].items = ItemList(table, keys)]
              /\ UNCHANGED faults
           \/ /\ body.kind = "dict" /\ receipt_id # 0
              /\ FaultAllowed
              /\ faults' = faults + 1
              /\ inv' = [inv EXCEPT ![s] = EstimatorRaises(
                            [me EXCEPT !.receipt_id = receipt_id], "DynamoDBError")]
        /\ UNCHANGED <<table, bucket, issued, nextReceipt, now, removed, crew, recommender>>

\* lambda_handler line 45: estimate_expiration_dates; an answer without
\* generated_text raises
EstimateGenerate(s) ==
    LET me == inv[s]
    IN  /\ me.pc = "est_gen"
        /\ \E result \in GenerationResults(EstimateTexts) :
            LET called == [me EXCEPT !.generations = me.generations + 1,
                                     !.result = result]
            IN  inv' = [inv EXCEPT ![s] =
                    IF "generated_text" \in DOMAIN result
                    THEN [called EXCEPT !.pc = "est_update",
                            !.items = estimate_expiration_dates(me.items,
                                            result.generated_text),
                            !.i = 1]
                    ELSE EstimatorRaises(called,
                            "Failed to estimate expiration dates")]
        /\ UNCHANGED <<table, bucket, issued, nextReceipt, faults, now, removed, crew, recommender>>

\* one round of the loop of update_grocery_items, and the handler's return
\* after the last round
EstimateUpdate(s) ==
    LET me   == inv[s]
        item == me.items[me.i]
    IN  /\ me.pc = "est_update"
        /\ \/ /\ table' = UpdateItem(table, item.ItemId, item.ExpirationDate,
                                     item.ShelfLifeDays, now)
              /\ inv' = [inv EXCEPT ![s] =
                    IF me.i = Len(me.items)
                    THEN EstimatorReturns(me, EstimatorOk(me.receipt_id, me.items))
                    ELSE [me EXCEPT !.i = me.i + 1]]
              /\ UNCHANGED faults
           \/ /\ FaultAllowed
              /\ faults' = faults + 1
              /\ inv' = [inv EXCEPT ![s] = EstimatorRaises(me, "DynamoDBError")]
              /\ UNCHANGED table
        /\ UNCHANGED <<bucket, issued, nextReceipt, now, removed, crew, recommender>>

\* --------------------------------------------------- grocery_tracker/app.py
\* a tracker handler without the except clause
TrackerUncaught(msg) == Unhandled(msg)

\* the except clause of the tracker's lambda_handler
TrackerCaught(msg) == Response(500, [error |-> msg])

TrackerReturns(me, response) ==
    [me EXCEPT !.pc = "done", !.response = response]

TrackerRaises(me, msg) ==
    TrackerReturns([me EXCEPT !.exception = Raise("tracker", msg)],
                   TrackerCaught(msg))

\* lambda_handler lines 27-37: days_to_expiration from the query parameters;
\* set = FALSE is None
DaysToExpiration(event) ==
    LET query_params == event.queryStringParameters
    IN  IF "expiring_within_days" \in DOMAIN query_params
           /\ ParseInt(query_params.expiring_within_days).ok
        THEN [set |-> TRUE, val |-> ParseInt(query_params.expiring_within_days).val]
        ELSE [set |-> FALSE, val |-> 0]

\* the GET branch of lambda_handler
TrackerGet(s) ==
    LET me        == inv[s]
        days      == DaysToExpiration(me.payload)
        inventory == get_grocery_inventory(table, days.set, days.val, now)
    IN  /\ me.pc = "trk"
        /\ me.payload.httpMethod = "GET"
        /\ \/ /\ inv' = [inv EXCEPT ![s] = TrackerReturns(me,
                            Response(200, [items_count |-> Cardinality(inventory),
                                           items |-> inventory]))]
              /\ UNCHANGED faults
           \/ /\ FaultAllowed
              /\ faults' = faults + 1
              /\ inv' = [inv EXCEPT ![s] = TrackerRaises(me, "DynamoDBError")]
        /\ UNCHANGED <<table, bucket, issued, nextReceipt, now, removed, crew, recommender>>

\* body.get('item_id'): <<>> stands for None
ItemIdOf(body) == IF "item_id" \in DOMAIN body THEN body.item_id ELSE <<>>

\* the 200 response of a DELETE
Removed(item_id) ==
    Response(200, [message |-> "Item removed from inventory", item_id |-> item_id])

\* a remove_grocery_item that deletes with ConditionExpression
\* attribute_exists(ItemId): an absent key raises
remove_grocery_item_if_exists(tbl, item_id) ==
    [raised |-> item_id \notin DOMAIN tbl, table |-> DeleteItem(tbl, item_id)]

\* remove_grocery_item: table.delete_item with the key alone; it raises
\* nothing of its own
remove_grocery_item(tbl, item_id) ==
    [raised |-> FALSE, table |-> DeleteItem(tbl, item_id)]

\* the DELETE branch of lambda_handler, with remove_grocery_item
TrackerDelete(s) ==
    LET me      == inv[s]
        body    == BodyOf(me.payload)
        item_id == ItemIdOf(body.val)
    IN  /\ me.pc = "trk"
        /\ me.payload.httpMethod = "DELETE"
        /\ \/ /\ body.kind = "raise"
              /\ inv' = [inv EXCEPT ![s] = TrackerRaises(me, "JSONDecodeError")]
              /\ UNCHANGED <<table, faults, removed>>
           \/ /\ body.kind = "none"
              /\ inv' = [inv EXCEPT ![s] = TrackerRaises(me, "AttributeError")]
              /\ UNCHANGED <<table, faults, removed>>
           \/ /\ body.kind = "dict" /\ item_id = <<>>
              /\ inv' = [inv EXCEPT ![s] = TrackerReturns(me,
                            Response(400, [error |-> "No item_id provided"]))]
              /\ UNCHANGED <<table, faults, removed>>
           \/ /\ body.kind = "dict" /\ item_id # <<>>
              /\ LET outcome == remove_grocery_item(table, item_id)
                 IN  IF outcome.raised
                     THEN /\ inv' = [inv EXCEPT ![s] = TrackerRaises(me,
                                        "ConditionalCheckFailedException")]
                          /\ UNCHANGED <<table, removed>>
                     ELSE /\ table' = outcome.table
                          /\ removed' = removed \cup {item_id}
                          /\ inv' = [inv EXCEPT ![s] =
                                        TrackerReturns(me, Removed(item_id))]
              /\ UNCHANGED faults
           \/ /\ body.kind = "dict" /\ item_id # <<>>
              /\ FaultAllowed
              /\ faults' = faults + 1
              /\ inv' = [inv EXCEPT ![s] = TrackerRaises(me, "DynamoDBError")]
              /\ UNCHANGED <<table, removed>>
        /\ UNCHANGED <<bucket, issued, nextReceipt, now, crew, recommender>>

\* the else branch of lambda_handler
TrackerMethodNotAllowed(s) ==
    LET me == inv[s]
    IN  /\ me.pc = "trk"
        /\ me.payload.httpMethod \notin {"GET", "DELETE"}
        /\ inv' = [inv EXCEPT ![s] = TrackerReturns(me,
                      Response(405, [error |-> "Method not allowed"]))]
        /\ UNCHANGED <<table, bucket, issued, nextReceipt, faults, now, removed, crew, recommender>>

\* ------------------------------------------ orchestrator/crewai_handler.py
\* the except clause of the CrewAI handler
CrewCaught(msg) == Response(500, [error |-> msg])

\* lambda_handler of the CrewAI orchestrator; crew.process_receipt runs the
\* CrewAI library, which returns a result or raises
CrewHandler(s) ==
    LET me   == inv[s]
        body == BodyOf(me.event)
    IN  /\ me.pc = "crew"
        /\ \/ /\ ~(EndsWith(me.event.path, "receipts") /\ me.event.httpMethod = "POST")
              /\ inv' = [inv EXCEPT ![s].pc = "done",
                            ![s].response = Response(404, [error |-> "Not found"])]
           \/ /\ EndsWith(me.event.path, "receipts") /\ me.event.httpMethod = "POST"
              /\ body.kind = "dict" /\ NoImage(body.val)
              /\ inv' = [inv EXCEPT ![s].pc = "done",
                            ![s].response =
                                Response(400, [error |-> "No image provided"])]
           \/ /\ EndsWith(me.event.path, "receipts") /\ me.event.httpMethod = "POST"
              /\ body.kind = "dict" /\ ~NoImage(body.val)
              /\ \/ inv' = [inv EXCEPT ![s].pc = "done",
                               ![s].generations = me.generations + 1,
                               ![s].response = Response(200,
                                   [message |-> "Grocery management workflow completed successfully"])]
                 \/ inv' = [inv EXCEPT ![s].pc = "done",
                               ![s].generations = me.generations + 1,
                               ![s].exception = Raise("crew", "CrewError"),
                               ![s].response = CrewCaught("CrewError")]
        /\ UNCHANGED <<table, bucket, issued, nextReceipt, faults, now, removed, crew, recommender>>

\* ------------------------------------------------------------ the system
Next ==
    \/ \E s \in Slots : Issue(s)
    \/ \E s \in Slots : Return(s)
    \/ Tick
    \/ \E s \in Slots : OrchestratorDispatch(s)
    \/ \E s \in Slots : OrchestratorAfterInterpret(s)
    \/ \E s \in Slots : OrchestratorAfterEstimate(s)
    \/ \E s \in Slots : InterpretStart(s)
    \/ \E s \in Slots : InterpretGenerate(s)
    \/ \E s \in Slots : InterpretStore(s)
    \/ \E s \in Slots : EstimateStart(s)
    \/ \E s \in Slots : EstimateGenerate(s)
    \/ \E s \in Slots : EstimateUpdate(s)
    \/ \E s \in Slots : TrackerGet(s)
    \/ \E s \in Slots : TrackerDelete(s)
    \/ \E s \in Slots : TrackerMethodNotAllowed(s)
    \/ \E s \in Slots : CrewHandler(s)

Spec == Init /\ [][Next]_vars

\* ------------------------------------------------ common/deepseek_client.py
\* Generated JSON text is a sequence of tokens: the punctuation "{", "}",
\* "[", "]", ",", a member token standing for the members written between
\* the braces of one object, and "prose" for any other text.
Members ==
    [mMilk10  |-> [name |-> cMilk, shelf_life_days |-> 10],
     mBread3  |-> [name |-> cBread, shelf_life_days |-> 3],
     mEggs21  |-> [name |-> cEggs, shelf_life_days |-> 21]]

\* json.loads on an object text: "{" members "}"
IsObject(t) == Len(t) = 3 /\ t[1] = "{" /\ t[2] \in DOMAIN Members /\ t[3] = "}"

\* json.loads on an array text: "[" "]" or "[" object ("," object)* "]"
IsArray(t) ==
    /\ Len(t) >= 2 /\ t[1] = "[" /\ t[Len(t)] = "]"
    /\ LET inner == SubSeq(t, 2, Len(t) - 1)
       IN  \/ inner = <<>>
           \/ /\ Len(inner) % 4 = 3
              /\ \A k \in 0..(Len(inner) \div 4) :
                    /\ IsObject(SubSeq(inner, 4 * k + 1, 4 * k + 3))
                    /\ 4 * k + 4 <= Len(inner) => inner[4 * k + 4] = ","

\* json.loads: ok = FALSE stands for JSONDecodeError; a dict is kind "dict"
\* with its members, a list is kind "list" with its elements
JsonLoads(t) ==
    IF IsObject(t)
    THEN [ok |-> TRUE, kind |-> "dict", val |-> <<Members[t[2]]>>]
    ELSE IF IsArray(t)
    THEN [ok |-> TRUE, kind |-> "list",
          val |-> [k \in 1..((Len(t) + 1) \div 4) |-> Members[t[4 * k - 1]]]]
    ELSE [ok |-> FALSE, kind |-> "", val |-> <<>>]

\* {"raw_response": response_text}
RawResponse(response_text) ==
    [ok |-> TRUE, kind |-> "dict", val |-> <<[raw_response |-> response_text]>>]

\* re.search(r'({.*})', response_text, re.DOTALL).group(1): from the first
\* "{" to the last "}"; <<>> when there is no match
BraceMatch(response_text) ==
    LET i == FirstIndex(response_text, "{")
        j == LastIndex(response_text, "}")
    IN  IF i # 0 /\ j > i THEN SubSeq(response_text, i, j) ELSE <<>>

\* a generate_structured_output without the except clause: no value when no
\* JSON is found or the span does not parse
generate_structured_output_strict(response_text) ==
    LET json_match == BraceMatch(response_text)
    IN  IF json_match # <<>> /\ JsonLoads(json_match).ok
        THEN JsonLoads(json_match)
        ELSE [ok |-> FALSE, kind |-> "", val |-> <<>>]

\* generate_structured_output lines 102-115, on the text the endpoint gave
generate_structured_output(response_text) ==
    LET json_match == BraceMatch(response_text)
    IN  IF json_match # <<>> /\ JsonLoads(json_match).ok
        THEN JsonLoads(json_match)
        ELSE RawResponse(response_text)

\* --------------------------------------------------- common/grocery_crew.py
Uppercase == <<"A", "B", "C", "D", "E", "F", "G", "H", "I", "J", "K", "L", "M",
               "N", "O", "P", "Q", "R", "S", "T", "U", "V", "W", "X", "Y", "Z">>
Lowercase == <<"a", "b", "c", "d", "e", "f", "g", "h", "i", "j", "k", "l", "m",
               "n", "o", "p", "q", "r", "s", "t", "u", "v", "w", "x", "y", "z">>

\* str.lower()
LowerChar(c) ==
    IF \E i \in 1..26 : Uppercase[i] = c
    THEN Lowercase[CHOOSE i \in 1..26 : Uppercase[i] = c]
    ELSE c

Lower(str) == [i \in 1..Len(str) |-> LowerChar(str[i])]

\* a in b, for strings
Contains(b, a) ==
    \E i \in 0..(Len(b) - Len(a)) : SubSeq(b, i + 1, i + Len(a)) = a

Max(a, b) == IF a >= b THEN a ELSE b

\* shelf_life_map = {item['name'].lower(): item['shelf_life_days'] ...}: the
\* keys in insertion order, and the value of each key
RECURSIVE MapKeys(_)
MapKeys(result) ==
    IF result = <<>> THEN <<>>
    ELSE LET front == MapKeys(SubSeq(result, 1, Len(result) - 1))
             key   == Lower(result[Len(result)].name)
         IN  IF \E i \in 1..Len(front) : front[i] = key THEN front
             ELSE Append(front, key)

MapValue(result, key) ==
    LET last == CHOOSE i \in 1..Len(result) :
                    /\ Lower(result[i].name) = key
                    /\ \A j \in (i + 1)..Len(result) : Lower(result[j].name) # key
    IN  result[last].shelf_life_days

\* a score whose numerator is the length of the shorter name
ScoreNumShorter(item_name, name) ==
    IF Len(item_name) < Len(name) THEN Len(item_name) ELSE Len(name)

\* line 257: the numerator of score = len(name) / max(len(item_name), len(name))
ScoreNum(item_name, name) == Len(name)

\* a comparison that also lets an equal score replace the best one
BetterOrEqual(num, den, best) == num * best.den >= best.num * den

\* line 258: score > best_score, for score = num / den
Better(num, den, best) == num * best.den > best.num * den

\* the loop of lines 253-260 over the keys: best_match and best_score, the
\* score as the fraction num / den; best_match <<>> with found = FALSE is None.
\* For an eligible name the score divides by max(len(item_name), len(name)):
\* when both are empty that is ZeroDivisionError (raised = TRUE)
RECURSIVE BestMatch(_, _, _)
BestMatch(item_name, keys, best) ==
    IF keys = <<>> \/ best.raised THEN best
    ELSE LET name == Head(keys)
             den  == Max(Len(item_name), Len(name))
             eligible == Contains(name, item_name) \/ Contains(item_name, name)
             num  == ScoreNum(item_name, name)
             better   == eligible /\ Better(num, den, best)
         IN  BestMatch(item_name, Tail(keys),
                 IF eligible /\ den = 0
                 THEN [best EXCEPT !.raised = TRUE]
                 ELSE IF better
                 THEN [found |-> TRUE, name |-> name, num |-> num,
                       den |-> den, raised |-> FALSE]
                 ELSE best)

NoMatch == [found |-> FALSE, name |-> <<>>, num |-> 0, den |-> 1, raised |-> FALSE]

\* line 262: if best_match and best_score > 0.5
Confident(best) ==
    best.found /\ best.name # <<>> /\ 2 * best.num > best.den

\* the match the loop and the test of line 262 give for one item name: the
\* candidate, or no match (found = FALSE)
Match(item_name, keys) ==
    LET best == BestMatch(item_name, keys, NoMatch)
    IN  IF best.raised THEN best
        ELSE IF Confident(best) THEN best
        ELSE NoMatch

\* lines 262-266: the shelf life of one item
CrewShelfLife(item, result) ==
    LET match == Match(Lower(item.name), MapKeys(result))
    IN  IF match.found THEN MapValue(result, match.name)
        ELSE DefaultShelfLifeDays

\* the matches of the items, in order
CrewMatches(items, result) ==
    IF result.kind = "list"
    THEN [i \in 1..Len(items) |-> Match(Lower(items[i].name), MapKeys(result.val))]
    ELSE <<>>

\* whether the loop of lines 250-271 raises
CrewRaises(items, result) ==
    \E i \in 1..Len(CrewMatches(items, result)) :
        CrewMatches(items, result)[i].raised

\* _estimate_expiration_dates lines 241-273, on the value
\* generate_structured_output returned
CrewEstimateExpirationDates(items, result, today) ==
    IF result.kind = "list"
    THEN [i \in 1..Len(items) |->
            LET days == CrewShelfLife(items[i], result.val)
            IN  Put(Put(items[i], "expiration_date", Strftime(today + days)),
                    "shelf_life_days", days)]
    ELSE items

\* the item lists and the generated texts a tool call is tried on
CrewNames ==
    {cMilk, cBread, <<"m", "i", "l", "k">>,
     <<"W", "h", "o", "l", "e", " ">> \o cMilk}

CrewItems == {[name |-> n] : n \in CrewNames}

CrewItemLists ==
    {<<a>> : a \in CrewItems} \cup {<<a, b>> : a \in CrewItems, b \in CrewItems}

CrewTexts ==
    {<<"[", "{", "mMilk10", "}", "]">>,
     <<"[", "{", "mMilk10", "}", ",", "{", "mBread3", "}", "]">>,
     <<"prose", "[", "{", "mBread3", "}", ",", "{", "mMilk10", "}", "]", "prose">>,
     <<"{", "mMilk10", "}">>,
     <<"[", "]">>,
     <<"prose">>,
     <<"[", "{", "mEggs21", "}">>}

\* a tool call of the expiration agent is about to run
InitCrew ==
    /\ table = EmptyDict
    /\ bucket = {}
    /\ inv = [s \in Slots |-> IdleSlot]
    /\ issued = 0
    /\ nextReceipt = 1
    /\ faults = 0
    /\ removed = {}
    /\ now = StartDay
    /\ recommender = NoRecommender
    /\ \E items \in CrewItemLists, text \in CrewTexts :
        crew = [pc |-> "estimate", items |-> items, text |-> text,
                result |-> RawResponse(<<>>), output |-> <<>>,
                matches |-> <<>>, raised |-> FALSE]

\* _estimate_expiration_dates: generate_structured_output on the generated
\* text, then the loop over the items
CrewEstimate ==
    /\ crew.pc = "estimate"
    /\ LET result == generate_structured_output(crew.text)
       IN  crew' = [crew EXCEPT !.pc = "estimated", !.result = result,
                       !.matches = CrewMatches(crew.items, result),
                       !.raised = CrewRaises(crew.items, result),
                       !.output = IF CrewRaises(crew.items, result) THEN <<>>
                                  ELSE CrewEstimateExpirationDates(crew.items,
                                            result, now)]
    /\ UNCHANGED <<table, bucket, inv, issued, nextReceipt, faults, now, removed,
                   recommender>>

NextCrew == CrewEstimate

SpecCrew == InitCrew /\ [][NextCrew]_vars

\* the names the matching loop is tried on
MatchNames ==
    {<<"m", "i", "l", "k">>, cMilk,
     <<"w", "h", "o", "l", "e", " ", "m", "i", "l", "k">>,
     <<"b", "r", "e", "a", "d">>,
     <<"m", "i", "l", "k", " ", "2", "%">>,
     <<"k", " ", "2", "%">>,
     <<>>}

\* the lists of estimates the loop is tried on: up to two candidates, the
\* first with 10 days and the second with 3
MatchCandidates ==
    {<<>>}
        \cup {<<[name |-> a, shelf_life_days |-> 10]>> : a \in MatchNames}
        \cup {<<[name |-> a, shelf_life_days |-> 10],
                [name |-> b, shelf_life_days |-> 3]>> :
                a \in MatchNames, b \in MatchNames}

\* the loop of lines 243-271 is about to run for one item, with a list of
\* estimates in result
InitMatch ==
    /\ table = EmptyDict
    /\ bucket = {}
    /\ inv = [s \in Slots |-> IdleSlot]
    /\ issued = 0
    /\ nextReceipt = 1
    /\ faults = 0
    /\ removed = {}
    /\ now = StartDay
    /\ recommender = NoRecommender
    /\ \E target \in MatchNames, candidates \in MatchCandidates :
        crew = [pc |-> "match", items |-> <<[name |-> target]>>, text |-> <<>>,
                result |-> [ok |-> TRUE, kind |-> "list", val |-> candidates],
                output |-> <<>>, matches |-> <<>>, raised |-> FALSE]

\* lines 243-271: the shelf-life map, the matching loop, the dates
CrewMatch ==
    /\ crew.pc = "match"
    /\ crew' = [crew EXCEPT !.pc = "matched",
                    !.matches = CrewMatches(crew.items, crew.result),
                    !.raised = CrewRaises(crew.items, crew.result),
                    !.output = IF CrewRaises(crew.items, crew.result) THEN <<>>
                               ELSE CrewEstimateExpirationDates(crew.items,
                                        crew.result, now)]
    /\ UNCHANGED <<table, bucket, inv, issued, nextReceipt, faults, now, removed,
                   recommender>>

NextMatch == CrewMatch

SpecMatch == InitMatch /\ [][NextMatch]_vars

\* ------------------------------- common/grocery_crew.py: receipt extraction
\* '[{"name":"Milk","price":3.5}]'
JsonMilk ==
    <<"[", "{", "\"", "n", "a", "m", "e", "\"", ":", "\"", "M", "i", "l",
      "k", "\"", ",", "\"", "p", "r", "i", "c", "e", "\"", ":", "3", ".",
      "5", "}", "]">>

\* '[]'
JsonEmpty == <<"[", "]">>

\* '[1]'
JsonOne == <<"[", "1", "]">>

\* '[{"name":"Milk","price":3.5}': the array without its closing bracket
JsonOpen == SubSeq(JsonMilk, 1, Len(JsonMilk) - 1)

\* '[x]': brackets around what is no JSON value
JsonBad == <<"[", "x", "]">>

\* json.loads on the bracket spans of the sample texts: the three array texts
\* parse to their values, every other span of the samples is a
\* JSONDecodeError (ok = FALSE)
JsonLoadsArray(t) ==
    IF t = JsonMilk
    THEN [ok |-> TRUE, val |-> <<[name |-> cMilk, price |-> [num |-> 35, den |-> 10]]>>]
    ELSE IF t = JsonEmpty THEN [ok |-> TRUE, val |-> <<>>]
    ELSE IF t = JsonOne THEN [ok |-> TRUE, val |-> <<1>>]
    ELSE [ok |-> FALSE, val |-> <<>>]

\* re.search(r'(\[.*\])', result, re.DOTALL).group(1): from the first "[" to
\* the last "]"; <<>> when there is no match
BracketMatch(result) ==
    LET i == FirstIndex(result, "[")
        j == LastIndex(result, "]")
    IN  IF i # 0 /\ j > i THEN SubSeq(result, i, j) ELSE <<>>

\* re.search(r'(\d+\.\d+)', s).group(1): the leftmost digits "." digits,
\* each run as long as it can be; <<>> when there is no match
DecimalRun(s) ==
    LET starts == {a \in 1..Len(s) :
                    /\ s[a] \in Digits
                    /\ \E b \in (a + 1)..(Len(s) - 1) :
                        /\ \A j \in a..(b - 1) : s[j] \in Digits
                        /\ s[b] = "."
                        /\ s[b + 1] \in Digits}
    IN  IF starts = {} THEN <<>>
        ELSE LET a == CHOOSE x \in starts : \A y \in starts : x <= y
                 b == CHOOSE x \in (a + 1)..(Len(s) - 1) :
                        /\ \A j \in a..(x - 1) : s[j] \in Digits
                        /\ s[x] = "."
                 c == CHOOSE x \in (b + 1)..Len(s) :
                        /\ \A j \in (b + 1)..x : s[j] \in Digits
                        /\ (x = Len(s) \/ s[x + 1] \notin Digits)
             IN  SubSeq(s, a, c)

\* lines 197-203: one line of the manual parse
CrewParseLine(line) ==
    IF FirstIndex(line, ":") # 0
    THEN LET parts == Split1(line, ":")
             name  == Strip(parts[1])
             price_match == DecimalRun(parts[2])
         IN  IF price_match # <<>>
             THEN <<[name |-> name,
                     price |-> [num |-> ParseFloat(price_match).num,
                                den |-> ParseFloat(price_match).den]]>>
             ELSE <<>>
    ELSE <<>>

RECURSIVE CrewParseLines(_)
CrewParseLines(lines) ==
    IF lines = <<>> THEN <<>>
    ELSE CrewParseLine(Head(lines)) \o CrewParseLines(Tail(lines))

\* _extract_items_from_receipt lines 185-207, on the text process_image gave:
\* the parsed bracket span when there is one, [] when it does not parse (the
\* except clause), the manual parse of the lines when there is no span
extract_items_from_receipt(result) ==
    LET json_match == BracketMatch(result)
    IN  IF json_match # <<>>
        THEN IF JsonLoadsArray(json_match).ok
             THEN JsonLoadsArray(json_match).val
             ELSE <<>>
        ELSE CrewParseLines(Split(Strip(result), "\n"))

\* the lines of the sample receipt texts
ReceiptLines ==
    {cMilk \o <<":", " ", "3", ".", "5", "0">>,
     cMilk \o <<":", " ", "$", "3", ".", "5", "0">>,
     cBread \o <<":", " ", "2">>,
     cBread \o <<":", " ", "$", "2">>,
     cEggs \o <<" ", "4">>,
     JsonMilk, JsonEmpty, JsonOne, JsonOpen, JsonBad}

\* the sample receipt texts: one line, or two
ExtractTexts ==
    ReceiptLines \cup {a \o <<"\n">> \o b : a \in ReceiptLines, b \in ReceiptLines}

\* a generated receipt text is about to be parsed, by the crew's tool and by
\* the interpreter's parse_receipt_text
InitExtract ==
    /\ table = EmptyDict
    /\ bucket = {}
    /\ inv = [s \in Slots |-> IdleSlot]
    /\ issued = 0
    /\ nextReceipt = 1
    /\ faults = 0
    /\ removed = {}
    /\ now = StartDay
    /\ recommender = NoRecommender
    /\ \E text \in ExtractTexts :
        crew = [pc |-> "extract", text |-> text,
                extracted |-> FALSE, items |-> <<>>,
                parsed |-> FALSE, grocery_items |-> <<>>]

\* the crew's tool: _extract_items_from_receipt
CrewExtract ==
    /\ crew.pc = "extract" /\ ~crew.extracted
    /\ crew' = [crew EXCEPT !.extracted = TRUE,
                    !.items = extract_items_from_receipt(crew.text)]
    /\ UNCHANGED <<table, bucket, inv, issued, nextReceipt, faults, now, removed,
                   recommender>>

\* the interpreter's parse_receipt_text
InterpreterParse ==
    /\ crew.pc = "extract" /\ ~crew.parsed
    /\ crew' = [crew EXCEPT !.parsed = TRUE,
                    !.grocery_items = parse_receipt_text(crew.text, now)]
    /\ UNCHANGED <<table, bucket, inv, issued, nextReceipt, faults, now, removed,
                   recommender>>

NextExtract ==
    \/ CrewExtract
    \/ InterpreterParse

SpecExtract == InitExtract /\ [][NextExtract]_vars

\* --------------------------------------------------- recipe_recommender/app.py
\* the except clause of the recommender's lambda_handler
RecommenderCaught(msg) == Response(500, [error |-> msg])

\* Generated recipe text is a sequence of tokens: the punctuation "{", "}",
\* "[", "]", ",", the key token "recipes:", a member token standing for the
\* members written between the braces of one recipe object, and any other
\* token for text that is not JSON ("1.", a line of a numbered section).
RecipeMembers ==
    [rPancakes |-> [name |-> "Pancakes", ingredients |-> <<"Milk", "Eggs">>,
                    instructions |-> "Mix and fry.",
                    cooking_time_minutes |-> 20],
     rToast    |-> [name |-> "Toast", ingredients |-> <<"Bread">>,
                    instructions |-> "Toast the bread."]]

\* json.loads on the text of one recipe object
IsRecipe(t) ==
    Len(t) = 3 /\ t[1] = "{" /\ t[2] \in DOMAIN RecipeMembers /\ t[3] = "}"

\* json.loads on the text of an array of recipe objects
IsRecipeList(t) ==
    /\ Len(t) >= 2 /\ t[1] = "[" /\ t[Len(t)] = "]"
    /\ LET inner == SubSeq(t, 2, Len(t) - 1)
       IN  \/ inner = <<>>
           \/ /\ Len(inner) % 4 = 3
              /\ \A k \in 0..(Len(inner) \div 4) :
                    /\ IsRecipe(SubSeq(inner, 4 * k + 1, 4 * k + 3))
                    /\ 4 * k + 4 <= Len(inner) => inner[4 * k + 4] = ","

\* json.loads(json_match.group(1)) followed by .get('recipes', []): the text
\* {"recipes": [...]} gives its list, the text of a lone recipe object gives
\* a dict without that key, anything else is a JSONDecodeError (ok = FALSE)
RecipesJson(t) ==
    IF Len(t) >= 4 /\ t[1] = "{" /\ t[2] = "recipes:" /\ t[Len(t)] = "}"
       /\ IsRecipeList(SubSeq(t, 3, Len(t) - 1))
    THEN [ok |-> TRUE,
          recipes |-> [k \in 1..((Len(t) - 3) \div 4) |->
                            RecipeMembers[t[4 * k + 1]]]]
    ELSE IF IsRecipe(t)
    THEN [ok |-> TRUE, recipes |-> <<>>]
    ELSE [ok |-> FALSE, recipes |-> <<>>]

\* parse_recipes_manually: its first statement, re.split at line 200, reads
\* the global name re; the module imports json, boto3, os and datetime only
\* (the import re of line 178 is local to generate_recipe_recommendations),
\* so the call raises NameError before any section is looked at
parse_recipes_manually(recipes_text) ==
    [raised |-> TRUE, msg |-> "name 're' is not defined", recipes |-> <<>>]

\* generate_recipe_recommendations lines 173-190, on the endpoint's result
generate_recipe_recommendations(result) ==
    IF "generated_text" \in DOMAIN result
    THEN LET recipes_text == result.generated_text
             json_match   == BraceMatch(recipes_text)
         IN  IF json_match # <<>>
             THEN IF RecipesJson(json_match).ok
                  THEN [raised |-> FALSE, msg |-> "",
                        recipes |-> RecipesJson(json_match).recipes]
                  ELSE parse_recipes_manually(recipes_text)
             ELSE parse_recipes_manually(recipes_text)
    ELSE [raised |-> TRUE, msg |-> "Failed to generate recipe recommendations",
          recipes |-> <<>>]

\* the keys store_recipes reads of a recipe, in the order it reads them
RecipeKeys == <<"name", "ingredients", "instructions", "cooking_time_minutes">>

\* the first key store_recipes misses in a recipe; 0 when it has them all
MissingKey(recipe) ==
    IF \A i \in 1..Len(RecipeKeys) : RecipeKeys[i] \in DOMAIN recipe THEN 0
    ELSE CHOOSE i \in 1..Len(RecipeKeys) :
            /\ RecipeKeys[i] \notin DOMAIN recipe
            /\ \A j \in 1..(i - 1) : RecipeKeys[j] \in DOMAIN recipe

\* db_recipe of lines 250-260; the id is the timestamp and the name's hash
DbRecipe(recipe, today) ==
    [RecipeId |-> <<today, recipe.name>>, Name |-> recipe.name,
     Ingredients |-> recipe.ingredients, Instructions |-> recipe.instructions,
     CookingTimeMinutes |-> recipe.cooking_time_minutes, CreatedAt |-> today]

\* store_recipes: put_item recipe by recipe; a recipe without one of the keys
\* raises KeyError after the recipes before it were put
RECURSIVE store_recipes(_, _, _)
store_recipes(recipes, recipe_table, today) ==
    IF recipes = <<>>
    THEN [raised |-> FALSE, msg |-> "", recipe_table |-> recipe_table]
    ELSE IF MissingKey(Head(recipes)) # 0
    THEN [raised |-> TRUE,
          msg |-> "'" \o RecipeKeys[MissingKey(Head(recipes))] \o "'",
          recipe_table |-> recipe_table]
    ELSE store_recipes(Tail(recipes),
            Put(recipe_table, <<today, Head(recipes).name>>,
                DbRecipe(Head(recipes), today)),
            today)

\* use_expiring = query_params.get('use_expiring', 'false').lower() == 'true'
UseExpiring(query_params) ==
    /\ "use_expiring" \in DOMAIN query_params
    /\ Lower(query_params.use_expiring) = <<"t", "r", "u", "e">>

\* lines 35-43: the argument of get_grocery_inventory; set = FALSE is None
RecipeDaysToExpiration(query_params) ==
    IF UseExpiring(query_params) /\ "expiring_within_days" \in DOMAIN query_params
    THEN IF ParseInt(query_params.expiring_within_days).ok
         THEN [set |-> TRUE, val |-> ParseInt(query_params.expiring_within_days).val]
         ELSE [set |-> TRUE, val |-> 3]
    ELSE [set |-> FALSE, val |-> 0]

\* get_grocery_inventory of the recommender, lines 78-119: every page of the
\* scan, then the filter when days_to_expiration is not None
RecipeInventory(tbl, days_to_expiration, today) ==
    LET items == {tbl[k] : k \in ScanAll(tbl, <<>>)}
    IN  IF days_to_expiration.set
        THEN {Put(item, "DaysUntilExpiration", DaysUntilExpiration(item, today)) :
                item \in {it \in items :
                            InWindow(it, today, days_to_expiration.val)}}
        ELSE items

\* the events the recommender is invoked with
RecipeQueries ==
    {NoQuery,
     [use_expiring |-> <<"t", "r", "u", "e">>],
     [use_expiring |-> <<"T", "r", "u", "e">>, expiring_within_days |-> <<"2">>],
     [use_expiring |-> <<"t", "r", "u", "e">>, expiring_within_days |-> <<"x">>],
     [use_expiring |-> <<"f", "a", "l", "s", "e">>, expiring_within_days |-> <<"2">>],
     ExpiringQuery(<<"2">>)}

RecipeEvents ==
    {Event(<<"recipes">>, "GET", NoBody, q) : q \in RecipeQueries}
        \cup {Event(<<"recipes">>, "POST", NoBody, NoQuery)}

\* the grocery tables the recommender may find: the start tables, and one
\* with an item expiring in 2 days, an item not yet estimated, an item
\* expiring in 10 days and the item of the earlier upload, expiring today
EstimatedItem(key, name, shelf_life_days) ==
    [ItemId |-> key, ReceiptId |-> key[1], Name |-> name,
     Price |-> [num |-> 2, den |-> 1], PurchaseDate |-> Strftime(StartDay),
     CreatedAt |-> StartDay,
     ExpirationDate |-> Strftime(StartDay + shelf_life_days),
     ShelfLifeDays |-> shelf_life_days, UpdatedAt |-> StartDay]

StockedTable ==
    PutItem(PutItem(PutItem(PutItem(EmptyDict, SeedItem),
        EstimatedItem(<<1, 1>>, cMilk, 2)),
        DbItem(1, 2, [name |-> cBread, price |-> [num |-> 2, den |-> 1],
                      purchase_date |-> Strftime(StartDay)], StartDay)),
        EstimatedItem(<<2, 1>>, cEggs, 10))

RecipeTables == StartTables \cup {StockedTable}

\* the recipe texts the endpoint may generate
RecipeTexts ==
    {<<"{", "recipes:", "[", "{", "rPancakes", "}", "]", "}">>,
     <<"prose", "{", "recipes:", "[", "{", "rPancakes", "}", ",",
       "{", "rToast", "}", "]", "}", "prose">>,
     <<"{", "recipes:", "[", "]", "}">>,
     <<"{", "rPancakes", "}">>,
     <<"1.", "Pancakes">>,
     <<"1.", "Name: Pancakes", "Ingredients: Milk, Eggs",
       "Instructions: Mix and fry.", "Cooking time: 20">>,
     <<"{", "recipes:", "[", "{", "rPancakes", "}", ",", "]", "}">>,
     <<"prose">>}

\* the recommender is about to be invoked with a GET or another method
InitRecipes ==
    /\ table \in RecipeTables
    /\ bucket = {}
    /\ inv = [s \in Slots |-> IdleSlot]
    /\ issued = 0
    /\ nextReceipt = 1
    /\ faults = 0
    /\ removed = {}
    /\ now = StartDay
    /\ crew = NoCrew
    /\ \E event \in RecipeEvents :
        recommender = [pc |-> "start", event |-> event, inventory |-> {},
                       result |-> EmptyDict, recipes |-> <<>>,
                       recipe_table |-> EmptyDict,
                       exception |-> NoException, response |-> NoResponse]

\* lambda_handler lines 25-49: the method, the query, the inventory
RecommendStart ==
    /\ recommender.pc = "start"
    /\ LET query_params == recommender.event.queryStringParameters
           inventory == RecipeInventory(table,
                            RecipeDaysToExpiration(query_params), now)
       IN  recommender' =
            IF recommender.event.httpMethod # "GET"
            THEN [recommender EXCEPT !.pc = "done",
                    !.response = Response(405, [error |-> "Method not allowed"])]
            ELSE IF inventory = {}
            THEN [recommender EXCEPT !.pc = "done",
                    !.response = Response(404, [error |-> "No grocery items found"])]
            ELSE [recommender EXCEPT !.pc = "generate", !.inventory = inventory]
    /\ UNCHANGED <<table, bucket, inv, issued, nextReceipt, faults, now, removed,
                   crew>>

\* lambda_handler line 52: generate_recipe_recommendations(inventory)
RecommendGenerate ==
    /\ recommender.pc = "generate"
    /\ \E result \in GenerationResults(RecipeTexts) :
        LET outcome == generate_recipe_recommendations(result)
        IN  recommender' =
                IF outcome.raised
                THEN [recommender EXCEPT !.pc = "done", !.result = result,
                        !.exception = Raise("recommender", outcome.msg),
                        !.response = RecommenderCaught(outcome.msg)]
                ELSE [recommender EXCEPT !.pc = "store", !.result = result,
                        !.recipes = outcome.recipes]
    /\ UNCHANGED <<table, bucket, inv, issued, nextReceipt, faults, now, removed,
                   crew>>

\* lambda_handler lines 55-63: store_recipes(recipes) and the 200 response
RecommendStore ==
    /\ recommender.pc = "store"
    /\ LET outcome == store_recipes(recommender.recipes,
                                    recommender.recipe_table, now)
           stored  == [recommender EXCEPT !.pc = "done",
                         !.recipe_table = outcome.recipe_table]
       IN  recommender' =
                IF outcome.raised
                THEN [stored EXCEPT
                        !.exception = Raise("recommender", outcome.msg),
                        !.response = RecommenderCaught(outcome.msg)]
                ELSE [stored EXCEPT !.response =
                        Response(200, [recipes_count |-> Len(recommender.recipes),
                                       recipes |-> recommender.recipes])]
    /\ UNCHANGED <<table, bucket, inv, issued, nextReceipt, faults, now, removed,
                   crew>>

NextRecipes ==
    \/ RecommendStart
    \/ RecommendGenerate
    \/ RecommendStore

SpecRecipes == InitRecipes /\ [][NextRecipes]_vars

\* ------------------------------------------------------------- properties
\* the receipt upload of slot s went through the orchestrator
Upload(s) ==
    /\ inv[s].function = "orchestrator"
    /\ Route(inv[s].event.path, inv[s].event.httpMethod) = "process_receipt"

\* C1: in process_receipt, once the interpreter has answered with a status
\* other than 200, the estimator is not invoked for that request and the
\* orchestrator's response is the interpreter's response, status and body.
C1_ShortCircuit ==
    \A s \in Slots :
        LET me == inv[s]
        IN  (/\ Upload(s)
             /\ me.receipt_response # NoResponse
             /\ StatusOf(me.receipt_response) # 200)
            => /\ ~me.estimateInvoked
               /\ me.expiration_response = NoResponse
               /\ me.pc \in {"orch_interp", "done"}
               /\ me.pc = "done" => me.response = me.receipt_response

C1_Witness ==
    \E s \in Slots :
        /\ Upload(s)
        /\ inv[s].pc = "done"
        /\ StatusOf(inv[s].receipt_response) = 400
        /\ inv[s].response = inv[s].receipt_response

\* the interpreter succeeded and the estimator answered with a failure
EstimateFailed(s) ==
    /\ Upload(s)
    /\ inv[s].pc = "done"
    /\ StatusOf(inv[s].receipt_response) = 200
    /\ inv[s].expiration_response # NoResponse
    /\ StatusOf(inv[s].expiration_response) # 200

\* C2 as stated: after a failed estimate the orchestrator returns the
\* estimator's result and every record the interpreter put is in the table
\* exactly as it was put; stated for a system in which no other invocation
\* has ever run.
C2_StoredUnchanged ==
    \A s \in Slots :
        (EstimateFailed(s) /\ issued = 1)
        => /\ inv[s].response = inv[s].expiration_response
           /\ \A r \in inv[s].stored :
                r.ItemId \in DOMAIN table /\ table[r.ItemId] = r

\* C2 amended: after a failed estimate the orchestrator returns the
\* estimator's result and does no compensation: every record the interpreter
\* put is in the table, unless a DELETE request removed it, and holds every
\* attribute the interpreter gave it with the same value (the failed run may
\* have added its expiration attributes to some of the records).
C2_NoCompensation ==
    \A s \in Slots :
        EstimateFailed(s)
        => /\ inv[s].response = inv[s].expiration_response
           /\ \A r \in inv[s].stored :
                \/ r.ItemId \in removed
                \/ /\ r.ItemId \in DOMAIN table
                   /\ \A f \in DOMAIN r :
                        /\ f \in DOMAIN table[r.ItemId]
                        /\ table[r.ItemId][f] = r[f]

C2_Witness ==
    \E s \in Slots :
        /\ EstimateFailed(s)
        /\ StatusOf(inv[s].expiration_response) = 500
        /\ inv[s].stored # {}
        /\ \A r \in inv[s].stored : r.ItemId \in DOMAIN table
        /\ \E r \in inv[s].stored : "ExpirationDate" \in DOMAIN table[r.ItemId]

\* C4: in every reachable state of the table, a record that has an
\* ExpirationDate satisfies ExpirationDate = PurchaseDate + ShelfLifeDays.
C4_ExpirationInvariant ==
    \A k \in DOMAIN table :
        "ExpirationDate" \in DOMAIN table[k]
        => /\ "PurchaseDate" \in DOMAIN table[k]
           /\ "ShelfLifeDays" \in DOMAIN table[k]
           /\ Strptime(table[k].ExpirationDate).val
                = Strptime(table[k].PurchaseDate).val + table[k].ShelfLifeDays

\* the records an inventory read with expiring_within_days = n returns:
\* those with an expiration date d days ahead, 0 <= d <= n, each with d
ExpiringWithin(tbl, n, today) ==
    {Put(tbl[k], "DaysUntilExpiration",
         Strptime(tbl[k].ExpirationDate).val - today) :
        k \in {j \in DOMAIN tbl :
                /\ "ExpirationDate" \in DOMAIN tbl[j]
                /\ 0 <= Strptime(tbl[j].ExpirationDate).val - today
                /\ Strptime(tbl[j].ExpirationDate).val - today <= n}}

\* slot s holds a tracker GET whose expiring_within_days is an integer
ExpiringRead(s) ==
    /\ inv[s].payload.httpMethod = "GET"
    /\ "expiring_within_days" \in DOMAIN inv[s].payload.queryStringParameters
    /\ ParseInt(inv[s].payload.queryStringParameters.expiring_within_days).ok

\* C5: an inventory read with expiring_within_days = N that is answered
\* with 200 returns exactly the stored records that have an expiration date
\* with 0 <= d <= N, d = expiration_date - today, each carrying d; records
\* without an expiration date and expired records are left out.
C5_ExpiringWindow ==
    [][\A s \in Slots :
        (/\ inv[s].pc = "trk" /\ inv'[s].pc = "done"
         /\ ExpiringRead(s)
         /\ StatusOf(inv'[s].response) = 200)
        => inv'[s].response.body.items
            = ExpiringWithin(table,
                ParseInt(inv[s].payload.queryStringParameters.expiring_within_days).val,
                now)]_vars

C5_Witness ==
    \E s \in Slots :
        /\ inv[s].pc = "done" /\ ExpiringRead(s)
        /\ StatusOf(inv[s].response) = 200
        /\ \E it \in inv[s].response.body.items : it.DaysUntilExpiration = 2
        /\ \E k \in DOMAIN table :
            /\ "ExpirationDate" \in DOMAIN table[k]
            /\ Strptime(table[k].ExpirationDate).val < now
            /\ \A it \in inv[s].response.body.items : it.ItemId # k
        /\ Cardinality(DOMAIN table) > PageSize

\* slot s holds a DELETE for the tracker with an item_id
DeleteOf(s, item_id) ==
    /\ inv[s].pc = "trk"
    /\ inv[s].payload.httpMethod = "DELETE"
    /\ inv[s].payload.body = ObjectBody([item_id |-> item_id])

\* C6: a DELETE whose item_id is not in the table, and whose delete_item
\* call the store does not fail, is answered with 200 and leaves the table
\* as it was; so a second DELETE of an id gives the table and the status of
\* the first.
C6_DeleteIdempotent ==
    [][\A s \in Slots : \A item_id \in ItemIds :
        (/\ DeleteOf(s, item_id)
         /\ item_id \notin DOMAIN table
         /\ inv'[s].pc = "done"
         /\ faults' = faults)
        => /\ table' = table
           /\ StatusOf(inv'[s].response) = 200]_vars

C6_Witness ==
    \E s \in Slots :
        /\ inv[s].function = "tracker"
        /\ inv[s].pc = "done"
        /\ inv[s].payload.httpMethod = "DELETE"
        /\ StatusOf(inv[s].response) = 200
        /\ inv[s].response.body.item_id \in removed
        /\ inv[s].response.body.item_id[1] >= nextReceipt
        /\ inv[s].response.body.item_id[1] # SeedReceipt

\* C7: a DELETE on the grocery path with body {item_id}, sent to the
\* orchestrator, is answered with {message, item_id} and status 200.
C7_DeleteThroughOrchestrator ==
    \A s \in Slots :
        (/\ inv[s].function = "orchestrator"
         /\ inv[s].pc = "done"
         /\ EndsWith(inv[s].event.path, "grocery")
         /\ inv[s].event.httpMethod = "DELETE"
         /\ inv[s].event.body.shape = "object"
         /\ "item_id" \in DOMAIN inv[s].event.body.obj
         /\ inv[s].exception = NoException)
        => /\ StatusOf(inv[s].response) = 200
           /\ inv[s].response.body = Removed(inv[s].event.body.obj.item_id).body
           /\ inv[s].event.body.obj.item_id \in removed

\* the invocation is a receipt upload whose body has no image: a JSON object
\* without the image key, or an event without a body
NoImageUpload(me) ==
    /\ me.function \in {"orchestrator", "crew"}
    /\ EndsWith(me.event.path, "receipts") /\ me.event.httpMethod = "POST"
    /\ \/ me.event.body.shape = "nokey"
       \/ /\ me.event.body.shape = "object"
          /\ "image" \notin DOMAIN me.event.body.obj

NoTextForInterpreter(s) ==
    /\ Upload(s)
    /\ ~inv[s].estimateInvoked
    /\ inv[s].result # EmptyDict
    /\ "generated_text" \notin DOMAIN inv[s].result

\* C9: when the generation answer has no generated text during the interpret
\* stage, the stage answers 500, no record of that receipt is in the table,
\* and the receipt image put before is still in the bucket.
C9_GenerationFailure ==
    \A s \in Slots :
        NoTextForInterpreter(s)
        => /\ StatusOf(inv[s].receipt_response) = 500
           /\ inv[s].stored = {}
           /\ \A k \in DOMAIN table :
                "ReceiptId" \in DOMAIN table[k] => table[k].ReceiptId # inv[s].uuid
           /\ \E key \in bucket : key[1] = inv[s].uuid

C9_Witness ==
    \E s \in Slots :
        /\ NoTextForInterpreter(s)
        /\ inv[s].pc = "done"
        /\ StatusOf(inv[s].response) = 500
        /\ DOMAIN table # {}

\* the response of the handler in which the exception of slot s was raised
HandlerResponse(s) ==
    CASE inv[s].exception.handler = "interpreter" -> inv[s].receipt_response
      [] inv[s].exception.handler = "estimator"   -> inv[s].expiration_response
      [] OTHER                                    -> inv[s].response

\* C10: every handler is total: an exception raised while handling a request
\* becomes that handler's response, status 500 and body {error: message},
\* and no handler hands its invoker an unhandled-exception payload.
C10_HandlersTotal ==
    \A s \in Slots :
        /\ inv[s].exception # NoException
            => HandlerResponse(s) = Response(500, [error |-> inv[s].exception.msg])
        /\ \A r \in {inv[s].response, inv[s].receipt_response,
                     inv[s].expiration_response} :
            r # NoResponse => "statusCode" \in DOMAIN r

C10_Witness ==
    \E s \in Slots :
        /\ inv[s].pc = "done"
        /\ inv[s].exception # NoException
        /\ inv[s].exception.handler = "tracker"
        /\ inv[s].response = Response(500, [error |-> inv[s].exception.msg])

\* the recipe text of the recommender's generation has no parseable JSON
\* object: no brace pair, or a brace span that json.loads rejects
NoParseableRecipes(result) ==
    /\ "generated_text" \in DOMAIN result
    /\ \/ BraceMatch(result.generated_text) = <<>>
       \/ ~RecipesJson(BraceMatch(result.generated_text)).ok

\* C11: with a non-empty inventory and a generated recipe text without a
\* parseable JSON object, GET recipes is answered with status 200 and a list
\* of recipes.
C11_ParseDegradation ==
    (/\ recommender.pc = "done"
     /\ recommender.inventory # {}
     /\ NoParseableRecipes(recommender.result))
    => /\ StatusOf(recommender.response) = 200
       /\ "recipes" \in DOMAIN recommender.response.body

\* C12: the manual parser, on a numbered section that has a name and no
\* ingredients, instructions or cooking-time marker, gives one recipe with
\* that name, instructions "No instructions provided.", cooking time 30 and
\* no ingredients.
C12_ManualDefaults ==
    (/\ recommender.pc = "done"
     /\ "generated_text" \in DOMAIN recommender.result
     /\ recommender.result.generated_text = <<"1.", "Pancakes">>)
    => /\ StatusOf(recommender.response) = 200
       /\ recommender.response.body.recipes =
            <<[name |-> "Pancakes", ingredients |-> <<>>,
               instructions |-> "No instructions provided.",
               cooking_time_minutes |-> 30]>>

\* the candidate keys of the loop: the lowercased names of the estimates
CandidateKeys == {Lower(crew.result.val[j].name) : j \in 1..Len(crew.result.val)}

\* the candidates eligible for a target: one contains the other
Eligible(target) ==
    {k \in CandidateKeys : Contains(k, Lower(target)) \/ Contains(Lower(target), k)}

\* score(a) <= score(b) for a target of length n, the scores being
\* len(candidate) / max(n, len(candidate))
ScoreLeq(a, b, n) == Len(a) * Max(n, Len(b)) <= Len(b) * Max(n, Len(a))

\* score(k) > 0.5 for a target of length n
ScoreAboveHalf(k, n) == 2 * Len(k) > Max(n, Len(k))

MatchedMilk(candidates) ==
    /\ crew.pc = "matched"
    /\ crew.items = <<[name |-> <<"m", "i", "l", "k">>]>>
    /\ crew.result.val = candidates

C15_CaseInsensitiveEstimate ==
    \A s \in Slots :
        (/\ inv[s].pc = "est_update"
         /\ inv[s].result = [generated_text |-> EstimateTextLower])
        => \A i \in 1..Len(inv[s].items) :
            inv[s].items[i].Name = cMilk
            => inv[s].items[i].ShelfLifeDays = 10

\* name and price of the records of a list, the prices as reduced to a
\* common denominator
SameItems(items, expected) ==
    /\ Len(items) = Len(expected)
    /\ \A i \in 1..Len(items) :
        /\ {"name", "price"} \subseteq DOMAIN items[i]
        /\ items[i].name = expected[i].name
        /\ items[i].price.num * expected[i].price.den
            = expected[i].price.num * items[i].price.den

\* C16: a generated receipt text that contains the JSON array
\* [{"name":"Milk","price":3.5}] is extracted to exactly that array, by the
\* crew's tool and by the interpreter.
C16_ArrayReturned ==
    (crew.pc = "extract" /\ Contains(crew.text, JsonMilk))
    => /\ crew.extracted
            => crew.items = JsonLoadsArray(JsonMilk).val
       /\ crew.parsed
            => SameItems(crew.grocery_items, JsonLoadsArray(JsonMilk).val)

\* well-formed "name: price" lines, each with the record it stands for
WellFormedLines ==
    {[line |-> cMilk \o <<":", " ", "3", ".", "5", "0">>,
      item |-> [name |-> cMilk, price |-> [num |-> 350, den |-> 100]]],
     [line |-> cMilk \o <<":", " ", "$", "3", ".", "5", "0">>,
      item |-> [name |-> cMilk, price |-> [num |-> 350, den |-> 100]]],
     [line |-> cBread \o <<":", " ", "2">>,
      item |-> [name |-> cBread, price |-> [num |-> 2, den |-> 1]]],
     [line |-> cBread \o <<":", " ", "$", "2">>,
      item |-> [name |-> cBread, price |-> [num |-> 2, den |-> 1]]]}

\* C17: a text that is one well-formed "name: price" line, with or without a
\* currency symbol, gives one record, its name the text before the ":" and
\* its price the number of the last token, from the crew's line fallback and
\* from the interpreter's parse_receipt_text.
C17_NamePriceLine ==
    \A w \in WellFormedLines :
        (crew.pc = "extract" /\ crew.text = w.line)
        => /\ crew.extracted => SameItems(crew.items, <<w.item>>)
           /\ crew.parsed => SameItems(crew.grocery_items, <<w.item>>)

\* no JSON object is located in the text, or the located span does not parse
NoJsonObject(text) ==
    \/ ~\E i, j \in 1..Len(text) : i < j /\ text[i] = "{" /\ text[j] = "}"
    \/ ~JsonLoads(BraceMatch(text)).ok

\* C18: generate_structured_output, once the endpoint has given a text,
\* returns a value; when no JSON object is located in the text or the located
\* span does not parse, the value is {raw_response: <the text>}.
C18_AlwaysAValue ==
    crew.pc = "estimated"
    => /\ crew.result.ok
       /\ NoJsonObject(crew.text)
            => /\ crew.result.kind = "dict"
               /\ crew.result.val = <<[raw_response |-> crew.text]>>

C18_Witness ==
    /\ crew.pc = "estimated"
    /\ \E i \in 1..Len(crew.text) : crew.text[i] = "{"
    /\ NoJsonObject(crew.text)
    /\ crew.result.val = <<[raw_response |-> crew.text]>>

\* C19: when the generated text is, or contains, a valid JSON array of
\* records, generate_structured_output returns that array: the caller gets a
\* list.
C19_ListReturned ==
    \A i, j \in 1..Len(crew.text) :
        (/\ crew.pc = "estimated"
         /\ i + 1 < j
         /\ IsArray(SubSeq(crew.text, i, j))
         /\ \A k \in 1..(i - 1) : crew.text[k] \notin {"{", "["})
        => /\ crew.result.kind = "list"
           /\ crew.result.val = JsonLoads(SubSeq(crew.text, i, j)).val

\* the keys of the records of a receipt in the table
ItemsOfReceipt(tbl, receipt_id) ==
    {k \in DOMAIN tbl :
        "ReceiptId" \in DOMAIN tbl[k] /\ tbl[k].ReceiptId = receipt_id}

\* C20: the estimate stage, looking up the items of a receipt without a
\* store failure, goes on with every stored record of that receipt, whatever
\* the paging of the scan, and answers 404 only when the table has no record
\* of that receipt.
C20_EstimatorSeesAllItems ==
    [][\A s \in Slots :
        (/\ inv[s].pc = "est" /\ inv'[s].pc # "est"
         /\ faults' = faults
         /\ inv[s].payload.body.shape = "object"
         /\ "receipt_id" \in DOMAIN inv[s].payload.body.obj)
        => LET all == ItemsOfReceipt(table, inv[s].payload.body.obj.receipt_id)
           IN  /\ StatusOf(inv'[s].expiration_response) = 404 => all = {}
               /\ inv'[s].pc = "est_gen"
                    => {inv'[s].items[i].ItemId : i \in 1..Len(inv'[s].items)} = all]_vars

\* the bracket span of a text is no answer of the first step: it does not
\* parse, or parses to an empty list, or to a list of what are no records
BadSpan(t) ==
    \/ ~JsonLoadsArray(t).ok
    \/ t \in {JsonEmpty, JsonOne}

\* C21: when the text has a bracket span that does not parse, or parses to an
\* empty or wrongly-shaped list, the crew's tool returns what the line
\* fallback gives on the text, so its well-formed "name: price" lines are
\* returned.
C21_FallbackAfterBadSpan ==
    (/\ crew.pc = "extract"
     /\ crew.extracted
     /\ BracketMatch(crew.text) # <<>>
     /\ BadSpan(BracketMatch(crew.text)))
    => crew.items = CrewParseLines(Split(Strip(crew.text), "\n"))

\* C22: when several eligible candidates have the best score, the loop
\* returns the one that comes first in the iteration order of the map: every
\* eligible candidate before the returned one has a strictly lower score, and
\* every eligible candidate after it has a score that is not higher.
C22_FirstOnTie ==
    (crew.pc = "matched" /\ ~crew.raised)
    => \A i \in 1..Len(crew.items) :
        LET target == crew.items[i].name
            n      == Len(target)
            keys   == MapKeys(crew.result.val)
            match  == crew.matches[i]
        IN  match.found
            => \E p \in 1..Len(keys) :
                /\ keys[p] = match.name
                /\ \A q \in 1..Len(keys) :
                    keys[q] \in Eligible(target)
                    => IF q < p THEN ~ScoreLeq(match.name, keys[q], n)
                       ELSE ScoreLeq(keys[q], match.name, n)

C22_Witness ==
    /\ crew.pc = "matched"
    /\ crew.items = <<[name |-> <<"m", "i", "l", "k">>]>>
    /\ crew.result.val
        = <<[name |-> <<"m", "i", "l", "k", " ", "2", "%">>, shelf_life_days |-> 10],
            [name |-> <<"w", "h", "o", "l", "e", " ", "m", "i", "l", "k">>,
             shelf_life_days |-> 3]>>
    /\ ScoreLeq(<<"m", "i", "l", "k", " ", "2", "%">>,
                <<"w", "h", "o", "l", "e", " ", "m", "i", "l", "k">>, 4)
    /\ ScoreLeq(<<"w", "h", "o", "l", "e", " ", "m", "i", "l", "k">>,
                <<"m", "i", "l", "k", " ", "2", "%">>, 4)
    /\ crew.matches[1].name = <<"m", "i", "l", "k", " ", "2", "%">>
    /\ crew.output[1].shelf_life_days = 10

\* C23: every record of the grocery table that the interpret stage stored
\* has a price that is not negative, whatever the generated receipt text.
C23_PriceNonNegative ==
    \A k \in DOMAIN table :
        "Price" \in DOMAIN table[k]
        => table[k].Price.num >= 0 /\ table[k].Price.den > 0

\* C24: when the generated text has a JSON object with a list of recipes,
\* GET recipes is answered with status 200 and every recipe of that list,
\* each with a cooking_time_minutes: the one the text gave, or 30 when the
\* text gave none; and each of them is stored with that cooking time.
C24_CookingTimeDefault ==
    (/\ recommender.pc = "done"
     /\ "generated_text" \in DOMAIN recommender.result
     /\ RecipesJson(BraceMatch(recommender.result.generated_text)).ok)
    => LET given == RecipesJson(BraceMatch(recommender.result.generated_text)).recipes
           cooking_time(r) == IF "cooking_time_minutes" \in DOMAIN r
                              THEN r.cooking_time_minutes ELSE 30
       IN  /\ StatusOf(recommender.response) = 200
           /\ Len(recommender.response.body.recipes) = Len(given)
           /\ \A i \in 1..Len(given) :
                /\ "cooking_time_minutes"
                        \in DOMAIN recommender.response.body.recipes[i]
                /\ recommender.response.body.recipes[i].cooking_time_minutes
                        = cooking_time(given[i])
                /\ \E k \in DOMAIN recommender.recipe_table :
                    /\ recommender.recipe_table[k].Name = given[i].name
                    /\ recommender.recipe_table[k].CookingTimeMinutes
                            = cooking_time(given[i])

\* C25: a receipt upload whose interpret stage answered 200 with
\* items_count = 0, and in which no handler raised, is answered by the
\* orchestrator with status 200 and an empty item list.
C25_EmptyReceiptSucceeds ==
    \A s \in Slots :
        (/\ Upload(s)
         /\ inv[s].pc = "done"
         /\ inv[s].exception = NoException
         /\ inv[s].receipt_response # NoResponse
         /\ StatusOf(inv[s].receipt_response) = 200
         /\ inv[s].receipt_response.body.items_count = 0)
        => /\ StatusOf(inv[s].response) = 200
           /\ "items" \in DOMAIN inv[s].response.body
           /\ inv[s].response.body.items = <<>>

\* C26: no step, whatever the interleaving of DELETE requests and estimate
\* runs, leaves the grocery table with a record that lacks the Name,
\* ReceiptId or PurchaseDate of its creation, or changes them; and a key
\* whose delete was acknowledged comes back into the table only through
\* store_grocery_items' put (with CreatedAt), never through the estimate
\* stage's update.
C26_NoResurrection ==
    [][/\ \A k \in DOMAIN table' :
            {"Name", "ReceiptId", "PurchaseDate"} \subseteq DOMAIN table'[k]
       /\ \A k \in DOMAIN table \cap DOMAIN table' :
            {"Name", "ReceiptId", "PurchaseDate"} \subseteq DOMAIN table[k]
            => /\ table'[k].Name = table[k].Name
               /\ table'[k].ReceiptId = table[k].ReceiptId
               /\ table'[k].PurchaseDate = table[k].PurchaseDate
       /\ \A k \in removed \ DOMAIN table :
            k \in DOMAIN table' => "CreatedAt" \in DOMAIN table'[k]]_vars

\* C27: once a GET recipes has read the inventory, the items it goes on with
\* are, with use_expiring=true, exactly the items with an expiration date 0
\* to N days ahead, N being expiring_within_days, or 3 when that parameter is
\* absent or no integer; and the whole table otherwise.
C27_ExpiringInventory ==
    (/\ recommender.pc \in {"generate", "store", "done"}
     /\ recommender.event.httpMethod = "GET")
    => LET q == recommender.event.queryStringParameters
           n == IF "expiring_within_days" \in DOMAIN q
                   /\ ParseInt(q.expiring_within_days).ok
                THEN ParseInt(q.expiring_within_days).val
                ELSE 3
           handed == {item.ItemId : item \in recommender.inventory}
       IN  IF UseExpiring(q)
           THEN handed = {item.ItemId : item \in ExpiringWithin(table, n, now)}
           ELSE handed = DOMAIN table

\* the fields update_grocery_items sets
EstimateFields == {"ExpirationDate", "ShelfLifeDays", "UpdatedAt"}

\* C28: a step of the estimate stage's update loop, run for receipt R, changes
\* the table only at keys that hold a record of R before and after the step,
\* and in such a record only ExpirationDate, ShelfLifeDays and UpdatedAt:
\* every other record, and every other field of R's records, is unchanged.
C28_EstimatorFrame ==
    [][\A s \in Slots :
        (inv[s].pc = "est_update" /\ inv'[s] # inv[s])
        => \A k \in DOMAIN table \cup DOMAIN table' :
            (k \notin DOMAIN table \/ k \notin DOMAIN table' \/ table'[k] # table[k])
            => /\ k \in DOMAIN table /\ k \in DOMAIN table'
               /\ "ReceiptId" \in DOMAIN table[k]
               /\ table[k].ReceiptId = inv[s].receipt_id
               /\ DOMAIN table'[k] \subseteq DOMAIN table[k] \cup EstimateFields
               /\ \A f \in DOMAIN table[k] \ EstimateFields :
                    f \in DOMAIN table'[k] /\ table'[k][f] = table[k][f]]_vars

====
